---- MODULE Spec2Model ----
(***************************************************************************)
(* Vector index store of the news assistant (src/vector_store.py): the     *)
(* FAISS index file, the metadata log beside it, batched ingestion         *)
(* (add_documents), filtered retrieval (search_articles) and rebuild_index;*)
(* and the functions around it: the category-to-group table               *)
(* (src/category_mapper.py), the article analysis (src/analyzer.py) and    *)
(* the answer generation (src/rag_chain.py).                               *)
(*                                                                         *)
(* A vector is represented by the text it embeds (the embedding service is *)
(* external and deterministic per text); similarity scores are in tenths.  *)
(***************************************************************************)
EXTENDS Integers, Sequences, FiniteSets, TLC

\* ---------------------------------------------------------------- bounds
MaxDocs == 3      \* longest list handed to one add_documents call
MaxBatch == 2     \* largest batch_size handed to one add_documents call
MaxTotal == 3     \* documents handed to add_documents over a whole run
MaxTopK == 2      \* largest top_k handed to search_articles

\* ------------------------------------------------------------- documents
Today == "2025-08-04"

DocSupramax ==
    [title |-> "Supramax rates surge", summary |-> "Rates rose due to demand.",
     category |-> <<"supramax">>, assigned_group |-> <<"steel_export_group">>,
     events |-> <<"surge">>, date |-> "2025-08-01"]

DocCoal ==
    [title |-> "Coal imports fall", summary |-> "Panamax coal cargoes drop.",
     category |-> <<"panamax", "coal">>, assigned_group |-> <<"coal_import_group">>,
     events |-> <<>>, date |-> "2025-08-02"]

DocBlank == [title |-> " ", summary |-> " "]

DocEmptyTitle == [title |-> "", summary |-> "Rates rose due to demand."]

DocNoneSummary == [title |-> "Coal imports fall", summary |-> "None"]

DocNoTitle == [summary |-> "Panamax coal cargoes drop."]

ValidPool == {DocSupramax, DocCoal, DocBlank}
InvalidPool == {DocEmptyTitle, DocNoneSummary, DocNoTitle}
DocPool == ValidPool \cup InvalidPool

\* dict.get(key, default)
Get(d, key, default) == IF key \in DOMAIN d THEN d[key] ELSE default

\* str.strip() leaves nothing
IsBlankStr(s) == s \in {"", " "}

\* ' '.join(list).strip() leaves nothing
IsBlankList(l) == \A k \in DOMAIN l : IsBlankStr(l[k])

Truthy(d, key) == key \in DOMAIN d /\ d[key] # ""

\* validate_document when only the title is required
validate_document_title_only(doc) ==
    ~(~Truthy(doc, "title") \/ doc["title"] \in {"None", "none", ""})

\* lines 60-69: every required field is there, is not empty and is not the
\* text None
validate_document(doc) ==
    \A field \in {"title", "summary"} :
        ~(~Truthy(doc, field) \/ doc[field] \in {"None", "none", ""})

\* the four text parts that are joined and embedded
TextParts(doc) ==
    <<Get(doc, "title", ""), Get(doc, "summary", ""),
      Get(doc, "events", <<>>), Get(doc, "category", <<>>)>>

\* not text_for_embed.strip()
TextBlank(doc) ==
    /\ IsBlankStr(Get(doc, "title", ""))
    /\ IsBlankStr(Get(doc, "summary", ""))
    /\ IsBlankList(Get(doc, "events", <<>>))
    /\ IsBlankList(Get(doc, "category", <<>>))

\* EMBED.embed_query(text), normalised: one vector per text
Embed(doc) == TextParts(doc)

clean_meta(doc) ==
    [title |-> Get(doc, "title", ""),
     summary |-> Get(doc, "summary", ""),
     category |-> Get(doc, "category", <<>>),
     assigned_group |-> Get(doc, "assigned_group", <<>>),
     events |-> Get(doc, "events", <<>>),
     source_url |-> Get(doc, "source_url", ""),
     source |-> Get(doc, "source", ""),
     date |-> Get(doc, "date", Today),
     keywords |-> Get(doc, "keywords", <<>>)]

\* the vector that belongs to a metadata record
VecOfMeta(meta) == <<meta.title, meta.summary, meta.events, meta.category>>

\* ------------------------------------------------------------------ files
NoFile == [exists |-> FALSE, content |-> <<>>]
File(content) == [exists |-> TRUE, content |-> content]

\* an index that is not empty when created
_create_empty_index_holding_vector == <<[id |-> 0, vec |-> Embed(DocSupramax)]>>

_create_empty_index == <<>>

\* a load that gives what the file holds whether it could be read or not
load_index_unchecked(file, read_ok) == file.content

\* the indexes load_index can return: the file's, or an empty one when the
\* file is absent or reading it raises
load_index(file, read_ok) ==
    IF file.exists /\ read_ok THEN file.content ELSE _create_empty_index

\* add_with_ids as it would be if it replaced the index's content
add_with_ids_replacing(index, items) ==
    [k \in 1..Len(items) |-> [id |-> items[k].id, vec |-> items[k].vec]]

\* idx.add_with_ids(vectors_array, ids_array)
add_with_ids(index, items) ==
    index \o [k \in 1..Len(items) |-> [id |-> items[k].id, vec |-> items[k].vec]]

\* a write that puts the new lines before the lines of the file
append_metadata_in_front(file, items) ==
    File([k \in 1..Len(items) |-> items[k].meta] \o file.content)

\* open(META_PATH, 'a'); f.write('\n'.join(batch_metas) + '\n')
append_metadata(file, items) ==
    File(file.content \o [k \in 1..Len(items) |-> items[k].meta])

\* a line count that is always zero
existing_metas_uncounted(file) == <<>>

\* META_PATH read with splitlines()
existing_metas(file) == IF file.exists THEN file.content ELSE <<>>

Min(a, b) == IF a < b THEN a ELSE b

Range(s) == {s[k] : k \in DOMAIN s}

\* ------------------------------------------------------------------ state
VARIABLES
    index_file,     \* INDEX_PATH: [exists, content], content = <<[id, vec], ...>>
    meta_file,      \* META_PATH: [exists, content], content = metadata lines
    pc,             \* "idle", inside add_documents ("batch", "save"), or "returned"
    n_docs,         \* len(docs) of the running / last add_documents call
    valid_docs,     \* add_documents: valid_docs
    batch_size,     \* add_documents: batch_size
    idx,            \* add_documents: the index held in memory
    id_base,        \* add_documents: id_base
    i,              \* add_documents: offset of the next batch
    load_ok,        \* the last load_index read the index file (or found none)
    batch_log,      \* what each batch of the running / last operation did
    submitted,      \* documents handed to add_documents so far
    pre,            \* the two files as they were when the last operation began
    result,         \* how the last operation ended
    backup_file,    \* META_PATH.with_suffix('.backup'): [exists, content]
    in_rebuild,     \* the running add_documents was called by rebuild_index
    orig_meta,      \* the metadata log as it was before the first rebuild_index
    request,        \* the arguments of the call of a function outside the store
    writers,        \* add_documents calls that run side by side: their locals
    reader,         \* a search_articles call that runs beside them: its locals
    history         \* what the calls that run side by side did so far

vars == <<index_file, meta_file, pc, n_docs, valid_docs, batch_size, idx,
          id_base, i, load_ok, batch_log, submitted, pre, result,
          backup_file, in_rebuild, orig_meta, request,
          writers, reader, history>>

rebuild_vars == <<backup_file, in_rebuild, orig_meta>>

concurrent_vars == <<writers, reader, history>>

\* the processes that may each be inside add_documents
Writers == {"w1", "w2"}

\* a process that is not inside add_documents
WriterIdle == [pc |-> "idle", valid_docs |-> <<>>, batch_size |-> 1,
               idx |-> <<>>, id_base |-> 0, i |-> 0]

\* no search_articles call runs beside the writers
ReaderIdle == [pc |-> "idle"]

\* nothing happened yet: no two calls overlapped, no document was skipped,
\* no ID was given out
NoHistory == [overlapped |-> FALSE, skipped |-> FALSE, assigned |-> <<>>]

NoRequest == [op |-> "none"]

locals == <<valid_docs, batch_size, idx, id_base, i>>

NoResult == [op |-> "none", raised |-> FALSE, saved |-> "none", ret |-> <<>>,
             hits |-> <<>>, embed_failed |-> FALSE, cands |-> <<>>,
             query |-> "", filters |-> [events |-> <<>>], top_k |-> 0]

Snapshot == [index |-> index_file, meta |-> meta_file]

\* no call was made yet
NoCall ==
    /\ pc = "idle"
    /\ n_docs = 0
    /\ valid_docs = <<>>
    /\ batch_size = 1
    /\ idx = <<>>
    /\ id_base = 0
    /\ i = 0
    /\ load_ok = TRUE
    /\ batch_log = <<>>
    /\ submitted = 0
    /\ pre = [index |-> NoFile, meta |-> NoFile]
    /\ result = NoResult
    /\ backup_file = NoFile
    /\ in_rebuild = FALSE
    /\ orig_meta = NoFile
    /\ writers = [w \in Writers |-> WriterIdle]
    /\ reader = ReaderIdle
    /\ history = NoHistory

InitStore ==
    /\ index_file = NoFile
    /\ meta_file = NoFile
    /\ NoCall

Init ==
    /\ InitStore
    /\ request = NoRequest

\* ------------------------------------------------------------ add_documents
DocLists(room) == UNION {[1..n -> DocPool] : n \in 0..Min(MaxDocs, room)}

\* add_documents has no return value: ret stays None (<<>>); saved tells how
\* save_index went, "none" when it was not called
AddResult(raised, saved) ==
    [NoResult EXCEPT !.op = "add", !.raised = raised, !.saved = saved]

\* lines 112-155: the documents of one batch that get a vector, an ID and a
\* metadata line; a blank text or a failed embedding skips the document but
\* j still advances
RECURSIVE ProcessBatch(_, _, _, _)
ProcessBatch(batch_docs, fails, base, j) ==
    IF j >= Len(batch_docs) THEN <<>>
    ELSE LET doc == batch_docs[j + 1]
             rest == ProcessBatch(batch_docs, fails, base, j + 1)
         IN  IF TextBlank(doc) \/ j \in fails THEN rest
             ELSE <<[id |-> base + j, vec |-> Embed(doc),
                     meta |-> clean_meta(doc)]>> \o rest

\* positions of a batch at which embed_query is called at all
Embedded(batch_docs) ==
    {j \in 0..(Len(batch_docs) - 1) : ~TextBlank(batch_docs[j + 1])}

\* lines 79-101: validation, load_index, id_base; the early returns of lines
\* 79-90 come before load_index and before batch_size is used, so that branch
\* is taken with one value of each
add_documents_on(Lists, ReadOutcomes) ==
    /\ pc = "idle"
    /\ \E docs \in Lists, bs \in 1..MaxBatch,
          read_ok \in ReadOutcomes :
         LET valid == SelectSeq(docs, validate_document) IN
         /\ read_ok \/ index_file.exists
         /\ n_docs' = Len(docs)
         /\ submitted' = submitted + Len(docs)
         /\ pre' = Snapshot
         /\ batch_log' = <<>>
         /\ IF valid = <<>>
            THEN /\ read_ok
                 /\ bs = 1
                 /\ result' = AddResult(FALSE, "none")
                 /\ load_ok' = TRUE
                 /\ pc' = "returned"
                 /\ UNCHANGED locals
            ELSE /\ valid_docs' = valid
                 /\ batch_size' = bs
                 /\ idx' = load_index(index_file, read_ok)
                 /\ load_ok' = read_ok
                 /\ id_base' = Len(existing_metas(meta_file))
                 /\ i' = 0
                 /\ pc' = "batch"
                 /\ result' = NoResult
    /\ UNCHANGED <<index_file, meta_file>>
    /\ UNCHANGED <<rebuild_vars, request, concurrent_vars>>

\* add_documents on any list that fits the run
add_documents_in(ReadOutcomes) ==
    add_documents_on(DocLists(MaxTotal - submitted), ReadOutcomes)

\* lines 104-177: one batch; add_with_ids or the metadata write may raise,
\* which line 171 catches
add_documents_batch_in(Outcomes) ==
    /\ pc = "batch"
    /\ LET batch_docs == SubSeq(valid_docs, i + 1,
                                Min(i + batch_size, Len(valid_docs)))
       IN \E fails \in SUBSET Embedded(batch_docs),
             outcome \in Outcomes :
           LET items == ProcessBatch(batch_docs, fails, id_base + i, 0) IN
           /\ (outcome = "empty") <=> (items = <<>>)
           /\ idx' = IF outcome \in {"ok", "write_failed"}
                     THEN add_with_ids(idx, items) ELSE idx
           /\ meta_file' = IF outcome = "ok"
                           THEN append_metadata(meta_file, items)
                           ELSE meta_file
           /\ batch_log' = Append(batch_log,
                  [outcome |-> outcome, items |-> items,
                   size |-> Len(batch_docs),
                   embed_failed |-> Cardinality(fails)])
    /\ i' = i + batch_size
    /\ pc' = IF i + batch_size < Len(valid_docs) THEN "batch" ELSE "save"
    /\ UNCHANGED <<index_file, n_docs, valid_docs, batch_size, id_base,
                   load_ok, submitted, pre, result>>
    /\ UNCHANGED <<rebuild_vars, request, concurrent_vars>>

\* faiss.write_index(idx, INDEX_PATH)
save_index(index) == File(index)

\* lines 179-185: save_index, or its exception re-raised; a write that fails
\* leaves the file as it was or cut short ("torn": nothing of it can be read)
add_documents_save_in(WriteOutcomes) ==
    /\ pc = "save"
    /\ \E write \in WriteOutcomes :
         /\ index_file' = CASE write = "ok" -> save_index(idx)
                             [] write = "failed" -> index_file
                             [] write = "torn" -> File(<<>>)
         /\ result' = AddResult(write # "ok", write)
    /\ pc' = "returned"
    /\ valid_docs' = <<>>
    /\ batch_size' = 1
    /\ idx' = <<>>
    /\ id_base' = 0
    /\ i' = 0
    /\ UNCHANGED <<meta_file, n_docs, load_ok, batch_log, submitted, pre>>
    /\ UNCHANGED <<rebuild_vars, request, concurrent_vars>>

\* the process dies inside add_documents (and inside rebuild_index when that
\* is the caller): what is in memory is gone
crash ==
    /\ pc \in {"batch", "save"}
    /\ pc' = "returned"
    /\ result' = [NoResult EXCEPT !.op = "crash"]
    /\ valid_docs' = <<>>
    /\ batch_size' = 1
    /\ idx' = <<>>
    /\ id_base' = 0
    /\ i' = 0
    /\ in_rebuild' = FALSE
    /\ UNCHANGED <<index_file, meta_file, n_docs, load_ok, batch_log,
                   submitted, pre, backup_file, orig_meta, request,
                   concurrent_vars>>

\* ---------------------------------------------------------- search_articles
Queries == {"supramax rates", "coal"}

SimilarityThreshold == 1    \* similarity_threshold = 0.1, in tenths
OverFetch == 5              \* search_k = min(top_k * 5, idx.ntotal)

\* inner product of the normalised query vector and a stored vector, in tenths
Score(query, vec) ==
    CASE query = "supramax rates" /\ vec[1] = "Supramax rates surge" -> 9
      [] query = "supramax rates" /\ vec[1] = "Coal imports fall" -> 3
      [] query = "coal" /\ vec[1] = "Coal imports fall" -> 8
      [] OTHER -> 0

\* ISO dates in string order
DateOrder == <<"2025-08-01", "2025-08-02", "2025-08-04">>

\* the rank of a date text in that order
DateRank(d) ==
    IF d \in Range(DateOrder)
    THEN CHOOSE k \in DOMAIN DateOrder : DateOrder[k] = d
    ELSE 0

\* the characters of a date text
DateText(d) ==
    CASE d = "2025-08-01" ->
             <<"2", "0", "2", "5", "-", "0", "8", "-", "0", "1">>
      [] d = "2025-08-02" ->
             <<"2", "0", "2", "5", "-", "0", "8", "-", "0", "2">>
      [] d = "2025-08-04" ->
             <<"2", "0", "2", "5", "-", "0", "8", "-", "0", "4">>
      [] d = "2025-08-05" ->
             <<"2", "0", "2", "5", "-", "0", "8", "-", "0", "5">>
      [] d = "2025-8-2" ->
             <<"2", "0", "2", "5", "-", "8", "-", "2">>
      [] d = "2025-08- 3" ->
             <<"2", "0", "2", "5", "-", "0", "8", "-", " ", "3">>
      [] d = "2025/08/02" ->
             <<"2", "0", "2", "5", "/", "0", "8", "/", "0", "2">>
      [] d = "Aug 2, 2025" ->
             <<"A", "u", "g", " ", "2", ",", " ", "2", "0", "2", "5">>
      [] d = "2025-02-30" ->
             <<"2", "0", "2", "5", "-", "0", "2", "-", "3", "0">>
      [] d = "2024-02-29" ->
             <<"2", "0", "2", "4", "-", "0", "2", "-", "2", "9">>
      [] d = "2025-13-01" ->
             <<"2", "0", "2", "5", "-", "1", "3", "-", "0", "1">>
      [] d = "2025-08-02T10:00" ->
             <<"2", "0", "2", "5", "-", "0", "8", "-", "0", "2", "T", "1", "0", ":", "0", "0">>
      [] d = "2025-08-32" ->
             <<"2", "0", "2", "5", "-", "0", "8", "-", "3", "2">>
      [] OTHER -> <<>>

\* a datetime.date
Date(y, m, d) == [type |-> "date", y |-> y, m |-> m, d |-> d]

\* a date_range bound that is a text, not a datetime.date
DateString(text) == [type |-> "str", text |-> text]

Digits == <<"0", "1", "2", "3", "4", "5", "6", "7", "8", "9">>

AllDigits(s) == \A k \in DOMAIN s : s[k] \in Range(Digits)

DigitValue(c) == (CHOOSE k \in DOMAIN Digits : Digits[k] = c) - 1

RECURSIVE NumberOf(_)
NumberOf(s) ==
    IF s = <<>> THEN 0
    ELSE 10 * NumberOf(SubSeq(s, 1, Len(s) - 1)) + DigitValue(s[Len(s)])

\* %m: 1[0-2], 0[1-9] or [1-9]
MonthField(s) == Len(s) \in {1, 2} /\ AllDigits(s) /\ NumberOf(s) \in 1..12

\* %d: 3[01], [12]\d, 0[1-9], [1-9] or a blank and [1-9]
DayField(s) ==
    \/ Len(s) \in {1, 2} /\ AllDigits(s) /\ NumberOf(s) \in 1..31
    \/ Len(s) = 2 /\ s[1] = " " /\ s[2] \in Range(Digits) \ {"0"}

DayValue(s) == IF s[1] = " " THEN DigitValue(s[2]) ELSE NumberOf(s)

DaysInMonth(y, m) ==
    IF m = 2
    THEN IF y % 4 = 0 /\ (y % 100 # 0 \/ y % 400 = 0) THEN 29 ELSE 28
    ELSE IF m \in {4, 6, 9, 11} THEN 30 ELSE 31

\* datetime.datetime.strptime(text, "%Y-%m-%d").date(): four digits, a dash,
\* the month, a dash, the day and nothing after it; ok is FALSE where it
\* raises ValueError
strptime(text) ==
    LET splits == {ml \in {1, 2} :
                      /\ Len(text) \in {ml + 7, ml + 8}
                      /\ text[5] = "-"
                      /\ text[6 + ml] = "-"
                      /\ AllDigits(SubSeq(text, 1, 4))
                      /\ MonthField(SubSeq(text, 6, 5 + ml))
                      /\ DayField(SubSeq(text, 7 + ml, Len(text)))}
    IN  IF splits = {} THEN [ok |-> FALSE]
        ELSE LET ml == CHOOSE n \in splits : TRUE
                 y == NumberOf(SubSeq(text, 1, 4))
                 m == NumberOf(SubSeq(text, 6, 5 + ml))
                 d == DayValue(SubSeq(text, 7 + ml, Len(text)))
             IN  IF y >= 1 /\ d <= DaysInMonth(y, m)
                 THEN [ok |-> TRUE, date |-> Date(y, m, d)]
                 ELSE [ok |-> FALSE]

DateParses(d) == strptime(DateText(d)).ok

\* a <= b for two dates, were the last day of the range not part of it
DateLE_before(a, b) ==
    \/ a.y < b.y
    \/ a.y = b.y /\ a.m < b.m
    \/ a.y = b.y /\ a.m = b.m /\ a.d < b.d

\* a <= b for two datetime.date values
DateLE(a, b) ==
    \/ a.y < b.y
    \/ a.y = b.y /\ a.m < b.m
    \/ a.y = b.y /\ a.m = b.m /\ a.d <= b.d

FilterPool ==
    {[category |-> <<>>],
     [category |-> <<"supramax">>],
     [events |-> <<"surge">>,
      assigned_group |-> <<"steel_export_group", "coal_import_group">>],
     [category |-> <<"coal">>, assigned_group |-> <<"steel_export_group">>],
     [date_range |-> <<Date(2025, 8, 2), Date(2025, 8, 4)>>]}

\* filters.get(key) is a non-empty list
FilterGiven(filters, key) == key \in DOMAIN filters /\ filters[key] # <<>>

\* any(x in filters[key] for x in meta.get(key, []))
ListFilterPasses(meta, filters, key) ==
    \E k \in DOMAIN Get(meta, key, <<>>) :
        Get(meta, key, <<>>)[k] \in Range(filters[key])

\* lines 215-225: the date is there, strptime reads it, and it is between the
\* two bounds; comparing a date with a bound that is a text raises TypeError,
\* which the except of line 224 turns into False
DateFilterPasses(meta, filters) ==
    LET doc_date == Get(meta, "date", "")
        doc_date_obj == strptime(DateText(doc_date))
        start_date == filters["date_range"][1]
        end_date == filters["date_range"][2]
    IN  /\ doc_date # ""
        /\ doc_date_obj.ok
        /\ start_date.type = "date"
        /\ DateLE(start_date, doc_date_obj.date)
        /\ end_date.type = "date"
        /\ DateLE(doc_date_obj.date, end_date)

\* _apply_filters as it would be without its category block
_apply_filters_without_category(meta, filters) ==
    /\ FilterGiven(filters, "events") => ListFilterPasses(meta, filters, "events")
    /\ FilterGiven(filters, "assigned_group") =>
           ListFilterPasses(meta, filters, "assigned_group")
    /\ FilterGiven(filters, "date_range") => DateFilterPasses(meta, filters)

_apply_filters(meta, filters) ==
    /\ FilterGiven(filters, "events") => ListFilterPasses(meta, filters, "events")
    /\ FilterGiven(filters, "category") =>
           ListFilterPasses(meta, filters, "category")
    /\ FilterGiven(filters, "assigned_group") =>
           ListFilterPasses(meta, filters, "assigned_group")
    /\ FilterGiven(filters, "date_range") => DateFilterPasses(meta, filters)

\* a search that gives k entries in any order
SearchOrders_unordered(index, query, k) ==
    {[r \in 1..k |-> [id |-> index[p[r]].id,
                      score |-> Score(query, index[p[r]].vec)]] :
        p \in Permutations(DOMAIN index)}

\* idx.search(query_vector, k): the k best entries, best first; the order of
\* entries with equal scores is not fixed
SearchOrders(index, query, k) ==
    {[r \in 1..k |-> [id |-> index[p[r]].id,
                      score |-> Score(query, index[p[r]].vec)]] :
        p \in {q \in Permutations(DOMAIN index) :
                 \A a, b \in DOMAIN index :
                     a < b => Score(query, index[q[a]].vec)
                                >= Score(query, index[q[b]].vec)}}

\* a hit that is the bare metadata record, with no score and no vector ID
Hit_unannotated(meta, score, doc_id) ==
    [title |-> meta.title, summary |-> meta.summary, category |-> meta.category,
     assigned_group |-> meta.assigned_group, events |-> meta.events,
     source_url |-> meta.source_url, source |-> meta.source, date |-> meta.date,
     keywords |-> meta.keywords, score |-> 0, doc_id |-> -1]

\* lines 291-293: the metadata record with its score and doc_id
Hit(meta, score, doc_id) ==
    [title |-> meta.title, summary |-> meta.summary, category |-> meta.category,
     assigned_group |-> meta.assigned_group, events |-> meta.events,
     source_url |-> meta.source_url, source |-> meta.source, date |-> meta.date,
     keywords |-> meta.keywords, score |-> score, doc_id |-> doc_id]

\* a walk that ends at a candidate whose ID has no metadata line
after_out_of_range_break(cands, k) == Len(cands) + 1

\* lines 282-284: continue, the walk goes on with the next candidate
after_out_of_range(cands, k) == k + 1

\* lines 277-303: the walk over the candidates
RECURSIVE CollectHits(_, _, _, _, _, _, _)
CollectHits(cands, k, hits, meta_lines, filters, top_k, threshold) ==
    IF k > Len(cands) THEN hits
    ELSE LET doc_id == cands[k].id
             score == cands[k].score
         IN  IF doc_id = -1 \/ score < threshold
             THEN CollectHits(cands, k + 1, hits, meta_lines, filters, top_k,
                              threshold)
             ELSE IF doc_id >= Len(meta_lines)
             THEN CollectHits(cands, after_out_of_range(cands, k), hits,
                              meta_lines, filters, top_k, threshold)
             ELSE LET meta == meta_lines[doc_id + 1]
                      hits2 == IF _apply_filters(meta, filters)
                               THEN Append(hits, Hit(meta, score, doc_id))
                               ELSE hits
                  IN  IF Len(hits2) >= top_k THEN hits2
                      ELSE CollectHits(cands, k + 1, hits2, meta_lines, filters,
                                       top_k, threshold)

\* a sort key with the score first and the date second
KeyGE_score_first(a, b) ==
    \/ a.score > b.score
    \/ a.score = b.score /\ DateRank(a.date) >= DateRank(b.date)

\* (x.get("date", ""), x["score"]) of a is not below that of b
KeyGE(a, b) ==
    \/ DateRank(a.date) > DateRank(b.date)
    \/ DateRank(a.date) = DateRank(b.date) /\ a.score >= b.score

\* hits.sort(key=..., reverse=True): stable, largest key first
RECURSIVE SortHits(_)
SortHits(hits) ==
    IF hits = <<>> THEN <<>>
    ELSE LET n == Len(hits)
             front == SortHits(SubSeq(hits, 1, n - 1))
             h == hits[n]
             ahead == Cardinality({k \in DOMAIN front : KeyGE(front[k], h)})
         IN  SubSeq(front, 1, ahead) \o <<h>> \o SubSeq(front, ahead + 1, n - 1)

\* the list search_articles returns; line 311 catches every exception, so
\* raised stays FALSE
SearchResult(query, filters, top_k, hits, embed_failed) ==
    [NoResult EXCEPT !.op = "search", !.query = query, !.filters = filters,
                     !.top_k = top_k, !.hits = hits,
                     !.embed_failed = embed_failed]

search_articles ==
    /\ pc = "idle"
    /\ \E query \in Queries, filters \in FilterPool, top_k \in 1..MaxTopK,
          read_ok \in BOOLEAN, embed_ok \in BOOLEAN :
         LET index == load_index(index_file, read_ok)
             search_k == Min(top_k * OverFetch, Len(index))
         IN  /\ read_ok \/ index_file.exists
             /\ embed_ok \/ Len(index) > 0
             /\ load_ok' = read_ok
             /\ IF Len(index) = 0 \/ ~embed_ok \/ ~meta_file.exists
                THEN result' = SearchResult(query, filters, top_k, <<>>,
                                            ~embed_ok)
                ELSE \E cands \in SearchOrders(index, query, search_k) :
                       LET hits == CollectHits(cands, 1, <<>>, meta_file.content,
                                               filters, top_k, SimilarityThreshold)
                       IN  result' = [SearchResult(query, filters, top_k,
                               SubSeq(SortHits(hits), 1, Min(top_k, Len(hits))),
                               FALSE) EXCEPT !.cands = cands]
    /\ pc' = "returned"
    /\ pre' = Snapshot
    /\ n_docs' = 0
    /\ batch_log' = <<>>
    /\ UNCHANGED <<index_file, meta_file, locals, submitted>>
    /\ UNCHANGED <<rebuild_vars, request, concurrent_vars>>

\* the caller has the outcome and goes on; nothing of the call is left in memory
caller_continues ==
    /\ pc = "returned"
    /\ ~in_rebuild
    /\ pc' = "idle"
    /\ result' = NoResult
    /\ n_docs' = 0
    /\ load_ok' = TRUE
    /\ batch_log' = <<>>
    /\ pre' = [index |-> NoFile, meta |-> NoFile]
    /\ UNCHANGED <<index_file, meta_file, locals, submitted>>
    /\ UNCHANGED <<rebuild_vars, request, concurrent_vars>>

BatchOutcomes == {"ok", "add_failed", "write_failed", "empty"}

add_documents == add_documents_in(BOOLEAN)

add_documents_batch == add_documents_batch_in(BatchOutcomes)

add_documents_save == add_documents_save_in({"ok", "failed", "torn"})

Next ==
    \/ add_documents
    \/ add_documents_batch
    \/ add_documents_save
    \/ crash
    \/ caller_continues

Spec == Init /\ [][Next]_vars

\* the same calls when no file operation and no FAISS call fails; embedding
\* calls may still fail
add_documents_nofault == add_documents_in({TRUE})

add_documents_batch_nofault == add_documents_batch_in({"ok", "empty"})

add_documents_save_nofault == add_documents_save_in({"ok"})

NextNoFault ==
    \/ add_documents_nofault
    \/ add_documents_batch_nofault
    \/ add_documents_save_nofault
    \/ caller_continues

SpecNoFault == Init /\ [][NextNoFault]_vars

\* ingestion and retrieval, one request at a time
NextSearch ==
    \/ Next
    \/ search_articles

SpecSearch == Init /\ [][NextSearch]_vars

\* retrieval on a store that holds more vectors than one search fetches: the
\* store add_documents leaves when it is given these documents and nothing
\* fails
StoreOf(docs) ==
    LET items == ProcessBatch(docs, {}, 0, 0)
    IN  [index |-> save_index(add_with_ids(_create_empty_index, items)),
         meta |-> append_metadata(NoFile, items)]

\* one document more than a search with top_k = 1 fetches: n times one
\* document, then the other
LargeStores ==
    {[k \in 1..(OverFetch + 1) |-> IF k <= n THEN first ELSE second] :
        n \in 1..OverFetch,
        <<first, second>> \in {<<DocSupramax, DocCoal>>,
                               <<DocCoal, DocSupramax>>}}

InitSelect ==
    /\ \E docs \in LargeStores :
           /\ index_file = StoreOf(docs).index
           /\ meta_file = StoreOf(docs).meta
    /\ NoCall
    /\ request = NoRequest

NextSelect == search_articles

SpecSelect == InitSelect /\ [][NextSelect]_vars

\* one add_documents call on a list the caller names, on an empty store and on
\* stores that hold documents
GivenStores == {<<DocSupramax>>, <<DocCoal, DocSupramax>>}

InitGiven ==
    /\ \/ index_file = NoFile /\ meta_file = NoFile
       \/ \E docs \in GivenStores :
              /\ index_file = StoreOf(docs).index
              /\ meta_file = StoreOf(docs).meta
    /\ NoCall
    /\ request \in {[op |-> "add_documents", docs |-> docs] :
                       docs \in DocLists(MaxDocs)}

add_documents_given ==
    /\ request.op = "add_documents"
    /\ add_documents_on({request.docs}, BOOLEAN)

NextGiven ==
    \/ add_documents_given
    \/ add_documents_batch
    \/ add_documents_save

SpecGiven == InitGiven /\ [][NextGiven]_vars

\* ------------------------------------------------------------ rebuild_index
DefaultBatchSize == 50      \* add_documents(docs, batch_size=50)

RebuildResult(ok) == [NoResult EXCEPT !.op = "rebuild", !.ret = <<ok>>]

\* lines 346-376 and, inside the add_documents it calls, lines 79-101: the
\* index file is deleted, the records are read back from the log, the log is
\* renamed to the backup (replacing a backup that is there) and add_documents
\* starts on the records with its default batch size; unlink, read and rename
\* may each raise, which line 384 turns into False
rebuild_index_in(Outcomes) ==
    /\ pc = "idle"
    /\ \E outcome \in Outcomes :
         LET documents == meta_file.content
             valid == SelectSeq(documents, validate_document)
         IN
         /\ (outcome = "unlink_failed") => index_file.exists
         /\ (outcome # "ok") => meta_file.exists
         /\ orig_meta' = IF orig_meta.exists THEN orig_meta
                         ELSE File(meta_file.content)
         /\ pre' = Snapshot
         /\ batch_log' = <<>>
         /\ n_docs' = Len(documents)
         /\ index_file' = IF meta_file.exists /\ outcome # "unlink_failed"
                          THEN NoFile ELSE index_file
         /\ IF meta_file.exists /\ outcome = "ok" /\ documents # <<>>
            THEN /\ backup_file' = File(documents)
                 /\ meta_file' = NoFile
                 /\ in_rebuild' = TRUE
                 /\ IF valid = <<>>
                    THEN /\ result' = AddResult(FALSE, "none")
                         /\ load_ok' = TRUE
                         /\ pc' = "returned"
                         /\ UNCHANGED locals
                    ELSE /\ valid_docs' = valid
                         /\ batch_size' = DefaultBatchSize
                         /\ idx' = load_index(index_file', TRUE)
                         /\ load_ok' = TRUE
                         /\ id_base' = Len(existing_metas(meta_file'))
                         /\ i' = 0
                         /\ pc' = "batch"
                         /\ result' = NoResult
            ELSE /\ result' = RebuildResult(FALSE)
                 /\ load_ok' = TRUE
                 /\ pc' = "returned"
                 /\ UNCHANGED <<meta_file, backup_file, in_rebuild, locals>>
    /\ UNCHANGED <<submitted, request, concurrent_vars>>

\* lines 376-386: add_documents has returned or raised; the backup is deleted
\* and True returned, or the exception (of add_documents or of the unlink)
\* is turned into False
rebuild_index_return_in(UnlinkOutcomes) ==
    /\ pc = "returned"
    /\ in_rebuild
    /\ result.op = "add"
    /\ \E unlink_ok \in UnlinkOutcomes :
         /\ result.raised => unlink_ok
         /\ backup_file' = IF ~result.raised /\ unlink_ok THEN NoFile
                           ELSE backup_file
         /\ result' = RebuildResult(~result.raised /\ unlink_ok)
    /\ in_rebuild' = FALSE
    /\ UNCHANGED <<index_file, meta_file, pc, n_docs, locals, load_ok,
                   batch_log, submitted, pre, orig_meta, request,
                   concurrent_vars>>

rebuild_index ==
    rebuild_index_in({"ok", "unlink_failed", "read_failed", "rename_failed"})

rebuild_index_return == rebuild_index_return_in(BOOLEAN)

\* ingestion and rebuilds, one request at a time
NextRebuild ==
    \/ Next
    \/ rebuild_index
    \/ rebuild_index_return

SpecRebuild == Init /\ [][NextRebuild]_vars

\* the same when no file operation and no FAISS call fails; embedding calls
\* may still fail
rebuild_index_nofault == rebuild_index_in({"ok"})

rebuild_index_return_nofault == rebuild_index_return_in({TRUE})

NextRebuildNoFault ==
    \/ NextNoFault
    \/ rebuild_index_nofault
    \/ rebuild_index_return_nofault

SpecRebuildNoFault == Init /\ [][NextRebuildNoFault]_vars

\* --------------------------------------------------------- category_mapper
\* The texts of this part are sequences of one-character strings, so that
\* lower(), strip() and the substring test are computed.
MaxCats == 2      \* longest category list handed to map_categories_to_groups

\* str.lower() on one character
LowerChar(c) ==
    CASE c = "A" -> "a" [] c = "B" -> "b" [] c = "C" -> "c" [] c = "D" -> "d"
      [] c = "E" -> "e" [] c = "F" -> "f" [] c = "G" -> "g" [] c = "H" -> "h"
      [] c = "I" -> "i" [] c = "J" -> "j" [] c = "K" -> "k" [] c = "L" -> "l"
      [] c = "M" -> "m" [] c = "N" -> "n" [] c = "O" -> "o" [] c = "P" -> "p"
      [] c = "Q" -> "q" [] c = "R" -> "r" [] c = "S" -> "s" [] c = "T" -> "t"
      [] c = "U" -> "u" [] c = "V" -> "v" [] c = "W" -> "w" [] c = "X" -> "x"
      [] c = "Y" -> "y" [] c = "Z" -> "z"
      [] OTHER -> c

\* str.lower()
lower(s) == [k \in DOMAIN s |-> LowerChar(s[k])]

\* str.strip()
RECURSIVE strip(_)
strip(s) ==
    IF s = <<>> THEN s
    ELSE IF s[1] = " " THEN strip(Tail(s))
    ELSE IF s[Len(s)] = " " THEN strip(SubSeq(s, 1, Len(s) - 1))
    ELSE s

\* a in b, for two texts; a character outside ASCII is written as its code
\* point, "U+CD5C"
IsSub(a, b) ==
    \E k \in 0..(Len(b) - Len(a)) : SubSeq(b, k + 1, k + Len(a)) = a

\* the table, in the order of the dict
CATEGORY_TO_GROUP ==
    <<[key |-> <<"h", "a", "n", "d", "y">>,
      group |-> "steel_export_group"],
     [key |-> <<"h", "a", "n", "d", "y", "m", "a", "x">>,
      group |-> "steel_export_group"],
     [key |-> <<"s", "u", "p", "r", "a", "m", "a", "x">>,
      group |-> "steel_export_group"],
     [key |-> <<"b", "d", "i">>,
      group |-> "steel_export_group"],
     [key |-> <<"s", "t", "e", "e", "l">>,
      group |-> "steel_export_group"],
     [key |-> <<"b", "a", "l", "t", "i", "c">>,
      group |-> "steel_export_group"],
     [key |-> <<"p", "a", "n", "a", "m", "a", "x">>,
      group |-> "coal_import_group"],
     [key |-> <<"c", "a", "p", "e", "s", "i", "z", "e">>,
      group |-> "coal_import_group"],
     [key |-> <<"c", "o", "a", "l">>,
      group |-> "coal_import_group"],
     [key |-> <<"i", "r", "o", "n", " ", "o", "r", "e">>,
      group |-> "coal_import_group"],
     [key |-> <<"i", "r", "o", "n", "o", "r", "e">>,
      group |-> "coal_import_group"],
     [key |-> <<"c", "o", "n", "t", "a", "i", "n", "e", "r">>,
      group |-> "container_group"],
     [key |-> <<"s", "c", "f", "i">>,
      group |-> "container_group"],
     [key |-> <<"s", "h", "i", "p", "p", "i", "n", "g", " ", "s", "c", "h", "e", "d", "u", "l", "e">>,
      group |-> "container_group"],
     [key |-> <<"b", "o", "x", "s", "h", "i", "p">>,
      group |-> "container_group"],
     [key |-> <<"t", "e", "u">>,
      group |-> "container_group"],
     [key |-> <<"b", "u", "l", "k">>,
      group |-> "general_group"],
     [key |-> <<"b", "u", "l", "k", "e", "r">>,
      group |-> "general_group"],
     [key |-> <<"d", "r", "y", " ", "b", "u", "l", "k">>,
      group |-> "general_group"],
     [key |-> <<"f", "r", "e", "i", "g", "h", "t">>,
      group |-> "general_group"],
     [key |-> <<"r", "a", "t", "e", "s">>,
      group |-> "general_group"],
     [key |-> <<"c", "h", "a", "r", "t", "e", "r">>,
      group |-> "general_group"],
     [key |-> <<"t", "o", "n", "n", "a", "g", "e">>,
      group |-> "general_group"],
     [key |-> <<"v", "e", "s", "s", "e", "l">>,
      group |-> "general_group"],
     [key |-> <<"s", "h", "i", "p", "p", "i", "n", "g">>,
      group |-> "general_group"],
     [key |-> <<"m", "a", "r", "i", "t", "i", "m", "e">>,
      group |-> "general_group"],
     [key |-> <<"p", "o", "r", "t">>,
      group |-> "general_group"],
     [key |-> <<"c", "a", "r", "g", "o">>,
      group |-> "general_group"],
     [key |-> <<"d", "e", "m", "a", "n", "d">>,
      group |-> "general_group"],
     [key |-> <<"s", "u", "p", "p", "l", "y">>,
      group |-> "general_group"]>>

\* lines 63-70 as they would be with the partial match alone
GroupsOfKey_partial_only(key) ==
    LET partial == {k \in DOMAIN CATEGORY_TO_GROUP :
                       \/ IsSub(CATEGORY_TO_GROUP[k].key, key)
                       \/ IsSub(key, CATEGORY_TO_GROUP[k].key)}
    IN  IF partial # {}
        THEN {CATEGORY_TO_GROUP[CHOOSE k \in partial :
                                   \A m \in partial : k <= m].group}
        ELSE {}

\* lines 63-70: the group of the key that is equal, else the group of the
\* first key of the table that contains the category or is contained in it
GroupsOfKey(key) ==
    LET exact == {k \in DOMAIN CATEGORY_TO_GROUP :
                     CATEGORY_TO_GROUP[k].key = key}
        partial == {k \in DOMAIN CATEGORY_TO_GROUP :
                       \/ IsSub(CATEGORY_TO_GROUP[k].key, key)
                       \/ IsSub(key, CATEGORY_TO_GROUP[k].key)}
    IN  IF exact # {}
        THEN {CATEGORY_TO_GROUP[k].group : k \in exact}
        ELSE IF partial # {}
        THEN {CATEGORY_TO_GROUP[CHOOSE k \in partial :
                                   \A m \in partial : k <= m].group}
        ELSE {}

\* the groups of the returned list; the list is list(set), so the order of
\* its elements is not fixed and it has no duplicates
map_categories_to_groups(categories) ==
    IF categories = <<>> THEN {"general_group"}
    ELSE LET groups ==
                 UNION {GroupsOfKey(strip(lower(categories[k]))) :
                          k \in {n \in DOMAIN categories : categories[n] # <<>>}}
         IN  IF groups # {} THEN groups ELSE {"general_group"}

CategoryPool ==
    {<<"s", "u", "p", "r", "a", "m", "a", "x">>,
     <<"p", "a", "n", "a", "m", "a", "x">>,
     <<"c", "o", "a", "l">>,
     <<"u", "n", "k", "n", "o", "w", "n", "_", "t", "e", "r", "m", "_", "x", "y", "z">>,
     <<>>,
     <<" ">>,
     <<"S", "h", "i", "p", "p", "i", "n", "g">>,
     <<" ", "C", "o", "a", "l", " ">>,
     <<"i", "r", "o", "n", " ", "o", "r", "e", " ", "i", "m", "p", "o", "r", "t">>,
     <<"c", "a", "p", "e">>,
     <<"s", "h", "i", "p">>}

CategoryLists == UNION {[1..n -> CategoryPool] : n \in 0..MaxCats}

\* a call of a function that does not touch the store
StoreUnchanged ==
    UNCHANGED <<index_file, meta_file, n_docs, locals, load_ok, batch_log,
                submitted, pre, rebuild_vars, concurrent_vars>>

InitMapper ==
    /\ InitStore
    /\ request \in {[op |-> "map_categories_to_groups", categories |-> c] :
                       c \in CategoryLists}

map_categories_to_groups_call ==
    /\ pc = "idle"
    /\ request.op = "map_categories_to_groups"
    /\ result' = [op |-> "map_categories_to_groups",
                  groups |-> map_categories_to_groups(request.categories)]
    /\ pc' = "returned"
    /\ StoreUnchanged
    /\ UNCHANGED request

NextMapper == map_categories_to_groups_call

SpecMapper == InitMapper /\ [][NextMapper]_vars

\* ----------------------------------------------------------------- analyzer
MAX_RETRIES == 3

\* a JSON value of the field assigned_group: a string, a list (its elements)
\* or null
GStr(s) == [type |-> "str", val |-> s]
GList(elements) == [type |-> "list", val |-> elements]
GNull == [type |-> "null"]

\* a test that takes null alone for no value
Falsy_null_only(g) == g.type = "null"

\* not value
Falsy(g) ==
    \/ g.type = "null"
    \/ g.type = "str" /\ g.val = ""
    \/ g.type = "list" /\ g.val = {}

\* not article.get(field), or str(article[field]).strip() is '', 'None', 'none'
validate_article_input(article) ==
    \A field \in {"title", "content"} :
        /\ field \in DOMAIN article
        /\ article[field] # <<>>
        /\ strip(article[field]) \notin {<<>>, <<"N", "o", "n", "e">>,
                                          <<"n", "o", "n", "e">>}

\* what the chat completion call does: it raises, or answers with a text
\* that is no JSON object, or with a JSON object
ReplyRaises == [kind |-> "raise"]
ReplyText == [kind |-> "text"]
ReplyJson(value) == [kind |-> "json", value |-> value]

NoneResult == [ok |-> FALSE]

\* the category and events lists without blank and "none" entries
CleanList(l) ==
    SelectSeq(l, LAMBDA x : strip(x) # <<>>
                            /\ lower(strip(x)) \notin {<<"n", "o", "n", "e">>, <<>>})

\* a parser that takes no reply
parse_gpt_output_never(reply) == NoneResult

\* parse_gpt_output: None for a text that is no JSON object and for a summary
\* that is too short or a placeholder
parse_gpt_output(reply) ==
    IF reply.kind # "json" THEN NoneResult
    ELSE LET summary == strip(Get(reply.value, "summary", <<>>))
         IN  IF \/ Len(summary) < 10
                \/ lower(summary) \in {<<"n", "o", "n", "e">>, <<"n", "/", "a">>,
                                       <<"n", "o", "t", " ", "a", "v", "a", "i", "l", "a", "b", "l", "e">>}
             THEN NoneResult
             ELSE [ok |-> TRUE,
                   summary |-> summary,
                   category |-> CleanList(Get(reply.value, "category", <<>>)),
                   assigned_group |-> Get(reply.value, "assigned_group",
                                          GStr("general_group")),
                   events |-> CleanList(Get(reply.value, "events", <<>>))]

\* analyze_article_with_retry: the first of MAX_RETRIES replies that parses,
\* with the number of calls made
RECURSIVE analyze_article_with_retry(_, _)
analyze_article_with_retry(replies, attempt) ==
    IF attempt >= MAX_RETRIES THEN [parsed |-> NoneResult, calls |-> attempt]
    ELSE LET reply == replies[attempt + 1]
             parsed_result == IF reply.kind = "raise" THEN NoneResult
                              ELSE parse_gpt_output(reply)
         IN  IF parsed_result.ok
             THEN [parsed |-> parsed_result, calls |-> attempt + 1]
             ELSE analyze_article_with_retry(replies, attempt + 1)

FallbackKeywords ==
    <<<<"b", "u", "l", "k">>,
      <<"h", "a", "n", "d", "y">>,
      <<"h", "a", "n", "d", "y", "m", "a", "x">>,
      <<"s", "u", "p", "r", "a", "m", "a", "x">>,
      <<"p", "a", "n", "a", "m", "a", "x">>,
      <<"c", "a", "p", "e", "s", "i", "z", "e">>,
      <<"s", "t", "e", "e", "l">>,
      <<"i", "r", "o", "n", " ", "o", "r", "e">>,
      <<"c", "o", "a", "l">>,
      <<"c", "o", "n", "t", "a", "i", "n", "e", "r">>,
      <<"f", "r", "e", "i", "g", "h", "t">>,
      <<"r", "a", "t", "e", "s">>>>

\* s[:n]
Prefix(s, n) == SubSeq(s, 1, Min(n, Len(s)))

Ellipsis == <<".", ".", ".">>

\* create_fallback_result: the keywords found in title and content, and the
\* groups of all of them
create_fallback_result(article) ==
    LET text_lower == lower(Get(article, "title", <<>>) \o <<" ">>
                            \o Get(article, "content", <<>>))
        basic_categories == SelectSeq(FallbackKeywords,
                                      LAMBDA kw : IsSub(kw, text_lower))
        cut == strip(Prefix(Get(article, "content", <<>>), 200))
    IN  [ok |-> TRUE,
         summary |-> IF Len(cut) > 197 THEN Prefix(cut, 197) \o Ellipsis
                     ELSE cut,
         category |-> Prefix(basic_categories, 5),
         assigned_group |-> GList(map_categories_to_groups(basic_categories)),
         events |-> <<>>]

\* lines 220-230 and 242-252: the returned record; assigned_group holds the
\* elements of the list
AnalysisRecord(article, category, groups, events, summary) ==
    [title |-> Get(article, "title", <<>>),
     category |-> category,
     assigned_group |-> groups,
     events |-> events,
     summary |-> summary,
     source_url |-> Get(article, "url", <<>>),
     source |-> Get(article, "source", <<>>),
     date |-> Get(article, "date", <<>>),
     keywords |-> Get(article, "keywords", <<>>)]

\* analyze_article, with the path it took and the calls it made
analyze_article(article, replies) ==
    IF ~validate_article_input(article)
    THEN LET content == Get(article, "content", <<>>)
         IN  [path |-> "exception", calls |-> 0,
              record |-> AnalysisRecord(article, <<>>, {"general_group"}, <<>>,
                             IF Len(content) > 200
                             THEN Prefix(content, 200) \o Ellipsis
                             ELSE content)]
    ELSE LET tried == analyze_article_with_retry(replies, 0)
             gpt_result == IF tried.parsed.ok THEN tried.parsed
                           ELSE create_fallback_result(article)
             assigned_groups == gpt_result.assigned_group
         IN  [path |-> IF tried.parsed.ok THEN "llm" ELSE "fallback",
              calls |-> tried.calls,
              record |-> AnalysisRecord(article, gpt_result.category,
                             IF Falsy(assigned_groups)
                             THEN map_categories_to_groups(gpt_result.category)
                             ELSE IF assigned_groups.type = "str"
                             THEN {assigned_groups.val}
                             ELSE assigned_groups.val,
                             gpt_result.events, gpt_result.summary)]

ArtSupramax ==
    [title |-> <<"S", "u", "p", "r", "a", "m", "a", "x", " ", "r", "a", "t",
               "e", "s", " ", "s", "u", "r", "g", "e">>,
     content |-> <<"S", "u", "p", "r", "a", "m", "a", "x", " ", "f", "r", "e",
                 "i", "g", "h", "t", " ", "r", "a", "t", "e", "s", " ", "r",
                 "o", "s", "e", ".">>]

ArtStrike ==
    [title |-> <<"D", "o", "c", "k", " ", "s", "t", "r", "i", "k", "e">>,
     content |-> <<"W", "o", "r", "k", "e", "r", "s", " ", "w", "a", "l", "k",
                 "e", "d", " ", "o", "u", "t", ".">>]

ArtEmptyTitle ==
    [title |-> <<>>,
     content |-> <<"W", "o", "r", "k", "e", "r", "s", " ", "w", "a", "l", "k",
                 "e", "d", " ", "o", "u", "t", ".">>]

ArtNoneContent ==
    [title |-> <<"C", "o", "a", "l", " ", "i", "m", "p", "o", "r", "t", "s",
               " ", "f", "a", "l", "l">>,
     content |-> <<"N", "o", "n", "e">>]

ArtNoContent == [title |-> <<"D", "o", "c", "k", " ", "s", "t", "r", "i", "k", "e">>]

ArticlePool ==
    {ArtSupramax, ArtStrike, ArtEmptyTitle, ArtNoneContent, ArtNoContent}

LongSummary ==
    <<"R", "a", "t", "e", "s", " ", "r", "o", "s", "e", " ", "d",
      "u", "e", " ", "t", "o", " ", "d", "e", "m", "a", "n", "d",
      ".">>

ReplyPool ==
    {ReplyRaises,
     ReplyText,
     ReplyJson([summary |-> LongSummary,
                category |-> <<<<"s", "u", "p", "r", "a", "m", "a", "x">>>>,
                assigned_group |-> GStr("steel_export_group"),
                events |-> <<<<"s", "u", "r", "g", "e">>>>]),
     ReplyJson([summary |-> LongSummary,
                category |-> <<<<"c", "o", "a", "l">>, <<"N", "o", "n", "e">>>>,
                assigned_group |-> GStr("")]),
     ReplyJson([summary |-> LongSummary,
                category |-> <<<<"u", "n", "k", "n", "o", "w", "n", "_", "t", "e", "r", "m", "_", "x", "y", "z">>>>]),
     ReplyJson([summary |-> LongSummary,
                category |-> <<>>,
                assigned_group |-> GNull]),
     ReplyJson([summary |-> LongSummary,
                category |-> <<<<"p", "a", "n", "a", "m", "a", "x">>>>,
                assigned_group |-> GList({"coal_import_group"})]),
     ReplyJson([summary |-> LongSummary,
                category |-> <<<<"c", "a", "p", "e">>>>,
                assigned_group |-> GList({})]),
     ReplyJson([summary |-> <<"n", "/", "a">>,
                category |-> <<<<"c", "o", "a", "l">>>>,
                assigned_group |-> GStr("coal_import_group")])}

InitAnalyzer ==
    /\ InitStore
    /\ request \in {[op |-> "analyze_article", article |-> a, replies |-> r] :
                       a \in ArticlePool, r \in [1..MAX_RETRIES -> ReplyPool]}

analyze_article_call ==
    /\ pc = "idle"
    /\ request.op = "analyze_article"
    /\ LET done == analyze_article(request.article, request.replies)
       IN  result' = [op |-> "analyze_article", path |-> done.path,
                      calls |-> done.calls, record |-> done.record]
    /\ pc' = "returned"
    /\ StoreUnchanged
    /\ UNCHANGED request

NextAnalyzer == analyze_article_call

SpecAnalyzer == InitAnalyzer /\ [][NextAnalyzer]_vars

\* ---------------------------------------------------------------- rag_chain
ErrorLimit == 100           \* str(e)[:100]
RecentTopK == 7             \* top_k when the query asks for recent data
NormalTopK == 5             \* top_k otherwise
ContextLimit == 5           \* sorted_results[:5]
FewResults == 3             \* len(search_results) < 3

\* a step that raised an exception with this text, or gave this value
Raised(error) == [raised |-> TRUE, error |-> error]
Value(v) == [raised |-> FALSE, value |-> v]

\* any(keyword in text for keyword in keywords)
AnyIn(keywords, text) == \E k \in DOMAIN keywords : IsSub(keywords[k], text)

urgent_keywords ==
    <<<<"U+AE34", "U+AE09">>,
     <<"U+C989", "U+C2DC">>,
     <<"u", "r", "g", "e", "n", "t">>,
     <<"i", "m", "m", "e", "d", "i", "a", "t", "e">>,
     <<"U+C624", "U+B298">>,
     <<"t", "o", "d", "a", "y">>>>

recent_keywords ==
    <<<<"U+CD5C", "U+ADFC">>,
     <<"U+D604", "U+C7AC">>,
     <<"U+C9C0", "U+AE08">>,
     <<"U+C694", "U+C998">>,
     <<"r", "e", "c", "e", "n", "t">>,
     <<"c", "u", "r", "r", "e", "n", "t">>,
     <<"l", "a", "t", "e", "s", "t">>>>

forecast_words == <<<<"U+C804", "U+B9DD">>,
                    <<"U+C608", "U+CE21">>,
                    <<"f", "o", "r", "e", "c", "a", "s", "t">>,
                    <<"o", "u", "t", "l", "o", "o", "k">>>>

analysis_words == <<<<"U+BD84", "U+C11D">>,
                    <<"U+C601", "U+D5A5">>,
                    <<"a", "n", "a", "l", "y", "s", "i", "s">>,
                    <<"i", "m", "p", "a", "c", "t">>>>

definition_words == <<<<"U+BB34", "U+C5C7">>,
                      <<"U+BB50", "U+C57C">>,
                      <<"w", "h", "a", "t", " ", "i", "s">>,
                      <<"e", "x", "p", "l", "a", "i", "n">>>>

how_to_words == <<<<"U+C5B4", "U+B5BB", "U+AC8C">>,
                  <<"h", "o", "w", " ", "t", "o">>,
                  <<"U+BC29", "U+BC95">>>>

\* the chain of lines 81-88 with the analysis words tested first
topic_type_analysis_first(query_lower) ==
    IF AnyIn(analysis_words, query_lower) THEN "analysis"
    ELSE IF AnyIn(forecast_words, query_lower) THEN "forecast"
    ELSE IF AnyIn(definition_words, query_lower) THEN "definition"
    ELSE IF AnyIn(how_to_words, query_lower) THEN "how_to"
    ELSE "general"

\* lines 81-88: the if / elif chain that sets intent["type"]
topic_type(query_lower) ==
    IF AnyIn(forecast_words, query_lower) THEN "forecast"
    ELSE IF AnyIn(analysis_words, query_lower) THEN "analysis"
    ELSE IF AnyIn(definition_words, query_lower) THEN "definition"
    ELSE IF AnyIn(how_to_words, query_lower) THEN "how_to"
    ELSE "general"

NoneHasNoGet ==
    <<"'", "N", "o", "n", "e", "T", "y", "p", "e", "'", " ",
     "o", "b", "j", "e", "c", "t", " ", "h", "a", "s", " ",
     "n", "o", " ", "a", "t", "t", "r", "i", "b", "u", "t",
     "e", " ", "'", "g", "e", "t", "'">>

\* analyze_query_intent; user_meta.get raises when user_meta is None
analyze_query_intent(query, user_meta) ==
    LET query_lower == lower(query)
        role == Get(user_meta, "role", "U+B2F4 U+B2F9 U+C790")
    IN  IF user_meta.type = "null" THEN Raised(NoneHasNoGet)
        ELSE Value(
          [type |-> topic_type(query_lower),
           urgency |-> IF AnyIn(urgent_keywords, query_lower) THEN "high"
                       ELSE "normal",
           scope |-> "general",
           requires_recent_data |-> AnyIn(recent_keywords, query_lower),
           technical_level |-> IF role \in {"U+C0AC U+C7A5", "U+C2E4 U+C7A5"}
                               THEN "low"
                               ELSE IF role = "U+ADF8 U+B8F9 U+C7A5" THEN "medium"
                               ELSE "high"])

\* the user's groups: a list, or None
UserGroups(user_meta) == Get(user_meta, "groups", GList(<<>>))

NoneNotIterable ==
    <<"'", "N", "o", "n", "e", "T", "y", "p", "e", "'", " ",
     "o", "b", "j", "e", "c", "t", " ", "i", "s", " ", "n",
     "o", "t", " ", "i", "t", "e", "r", "a", "b", "l", "e">>

JoinNeedsIterable ==
    <<"c", "a", "n", " ", "o", "n", "l", "y", " ", "j", "o",
     "i", "n", " ", "a", "n", " ", "i", "t", "e", "r", "a",
     "b", "l", "e">>

NoneHasNoStrip ==
    <<"'", "N", "o", "n", "e", "T", "y", "p", "e", "'", " ",
     "o", "b", "j", "e", "c", "t", " ", "h", "a", "s", " ",
     "n", "o", " ", "a", "t", "t", "r", "i", "b", "u", "t",
     "e", " ", "'", "s", "t", "r", "i", "p", "'">>

\* relevance_score, in tenths: the score plus one tenth per group shared with
\* the user
relevance_score(hit, user_groups) ==
    hit.score + Cardinality(Range(user_groups) \cap Range(hit.assigned_group))

\* sorted(search_results, key=relevance_score, reverse=True): stable
RECURSIVE SortByRelevance(_, _)
SortByRelevance(hits, user_groups) ==
    IF hits = <<>> THEN <<>>
    ELSE LET n == Len(hits)
             front == SortByRelevance(SubSeq(hits, 1, n - 1), user_groups)
             h == hits[n]
             ahead == Cardinality({k \in DOMAIN front :
                          relevance_score(front[k], user_groups)
                              >= relevance_score(h, user_groups)})
         IN  SubSeq(front, 1, ahead) \o <<h>> \o SubSeq(front, ahead + 1, n - 1)

\* build_context_from_search: the hits the context lists, in its order;
\* set(user_groups) raises when the groups are None
build_context_from_search(search_results, user_meta) ==
    IF search_results = <<>> THEN Value(<<>>)
    ELSE IF UserGroups(user_meta).type = "null" THEN Raised(NoneNotIterable)
    ELSE Value(Prefix(SortByRelevance(search_results,
                                      UserGroups(user_meta).val),
                      ContextLimit))

\* build_system_message: ', '.join(groups) raises when the groups are None
build_system_message(user_meta, query_intent) ==
    IF UserGroups(user_meta).type = "null" THEN Raised(JoinNeedsIterable)
    ELSE Value([role |-> Get(user_meta, "role", "U+B2F4 U+B2F9 U+C790"),
                groups |-> UserGroups(user_meta).val,
                type |-> query_intent.type,
                technical_level |-> query_intent.technical_level])

\* format_sources: one numbered line per search result
format_sources(search_results) ==
    [k \in DOMAIN search_results |->
        [n |-> k, title |-> search_results[k].title,
         source |-> search_results[k].source,
         date |-> search_results[k].date,
         url |-> search_results[k].source_url]]

\* lines 267-285: the warnings appended to the answer
quality_warnings(search_results, query_intent, stale) ==
    (IF Len(search_results) = 0 THEN <<"no_recent_news">>
     ELSE IF Len(search_results) < FewResults THEN <<"limited_information">>
     ELSE <<>>)
    \o (IF query_intent.requires_recent_data /\ search_results # <<>> /\ stale
        THEN <<"older_than_a_week">> ELSE <<>>)

\* the fallback message without the cut of the error text
fallback_answer_uncut(error) ==
    [kind |-> "fallback", error_info |-> error]

\* lines 302-309: the fixed message followed by str(e)[:100]
fallback_answer(error) ==
    [kind |-> "fallback", error_info |-> Prefix(error, ErrorLimit)]

\* lines 223-296: the body of the try block; search_articles returns at most
\* top_k hits, or [] when it failed; context is the list of hits in the user
\* message of the chat call (lines 243-252), kept beside the returned text
TryBuildAnswer(query, user_meta, search_results, reply, stale) ==
    LET intent == analyze_query_intent(query, user_meta) IN
    IF intent.raised THEN intent
    ELSE LET query_intent == intent.value
             top_k == IF query_intent.requires_recent_data THEN RecentTopK
                      ELSE NormalTopK
             found == Prefix(search_results, top_k)
             context == build_context_from_search(found, user_meta)
             system_message == build_system_message(user_meta, query_intent)
         IN  IF context.raised THEN context
             ELSE IF system_message.raised THEN system_message
             ELSE IF reply.kind = "raise" THEN Raised(reply.error)
             ELSE IF reply.kind = "null" THEN Raised(NoneHasNoStrip)
             ELSE Value([kind |-> "answer",
                         answer |-> reply.text,
                         context |-> context.value,
                         sources |-> format_sources(found),
                         warnings |-> quality_warnings(found, query_intent,
                                                       stale)])

\* build_answer: the text it returns; line 298 catches every exception
build_answer(query, user_meta, search_results, reply, stale) ==
    LET done == TryBuildAnswer(query, user_meta, search_results, reply, stale)
    IN  IF done.raised THEN fallback_answer(done.error) ELSE done.value

QueryPool ==
    {<<"l", "a", "t", "e", "s", "t", " ", "s", "u", "p", "r",
      "a", "m", "a", "x", " ", "r", "a", "t", "e", "s">>,
     <<"c", "o", "a", "l", " ", "o", "u", "t", "l", "o", "o",
      "k">>,
     <<"W", "h", "a", "t", " ", "i", "s", " ", "B", "D", "I">>}

Staff == "U+B2F4 U+B2F9 U+C790"
President == "U+C0AC U+C7A5"

UserPool ==
    {[type |-> "dict", role |-> Staff,
      groups |-> GList(<<"steel_export_group">>)],
     [type |-> "dict", role |-> President, groups |-> GList(<<>>)],
     [type |-> "dict", role |-> Staff],
     [type |-> "dict", role |-> Staff, groups |-> GNull],
     GNull}

RagHitSupramax ==
    [title |-> "Supramax rates surge", source |-> "TradeWinds",
     source_url |-> "https://example.com/supramax", date |-> "2025-08-01",
     score |-> 9, assigned_group |-> <<"steel_export_group">>]

RagHitCoal ==
    [title |-> "Coal imports fall", source |-> "Splash247", source_url |-> "",
     date |-> "2025-08-02", score |-> 9,
     assigned_group |-> <<"coal_import_group">>]

RagHitBox ==
    [title |-> "Box rates slip", source |-> "Splash247", source_url |-> "",
     date |-> "2025-07-20", score |-> 4,
     assigned_group |-> <<"container_group">>]

\* a hit of the steel export group, as search_articles returns it
SteelHit(title, date, score) ==
    [title |-> title, source |-> "TradeWinds", source_url |-> "",
     date |-> date, score |-> score,
     assigned_group |-> <<"steel_export_group">>]

\* seven hits in the order search_articles returns them: newest first
SevenHits ==
    <<SteelHit("Steel exports rise", "2025-08-07", 5),
      SteelHit("Handysize rates firm", "2025-08-06", 8),
      SteelHit("Panamax rates ease", "2025-08-05", 6),
      SteelHit("Capesize rates jump", "2025-08-04", 9),
      SteelHit("Ore shipments grow", "2025-08-03", 7),
      SteelHit("Port congestion eases", "2025-08-02", 4),
      RagHitSupramax>>

SearchResultPool ==
    {<<>>, <<RagHitCoal, RagHitSupramax>>,
     <<RagHitCoal, RagHitSupramax, RagHitBox>>,
     Prefix(SevenHits, NormalTopK), SevenHits}

\* an error text of n characters, no two neighbours alike
ErrorText(n) ==
    [k \in 1..n |-> <<"0", "1", "2", "3", "4", "5", "6", "7", "8", "9">>[(k % 10) + 1]]

\* what the chat completion call does: it raises, or its message has no
\* content, or it answers
LLMPool ==
    {[kind |-> "raise", error |-> ErrorText(n)] :
        n \in {8, ErrorLimit, ErrorLimit + 1, ErrorLimit + 50}}
    \cup {[kind |-> "null"], [kind |-> "content", text |-> "answer text"]}

InitRag ==
    /\ InitStore
    /\ request \in {[op |-> "build_answer", query |-> q, user_meta |-> u,
                      search_results |-> r, reply |-> l, stale |-> st] :
                       q \in QueryPool, u \in UserPool,
                       r \in SearchResultPool, l \in LLMPool,
                       st \in BOOLEAN}

build_answer_call ==
    /\ pc = "idle"
    /\ request.op = "build_answer"
    /\ result' = [op |-> "build_answer", raised |-> FALSE,
                  answer |-> build_answer(request.query, request.user_meta,
                                          request.search_results,
                                          request.reply, request.stale)]
    /\ pc' = "returned"
    /\ StoreUnchanged
    /\ UNCHANGED request

NextRag == build_answer_call

SpecRag == InitRag /\ [][NextRag]_vars

\* analyze_query_intent called on its own
IntentQueryPool ==
    {<<"f", "o", "r", "e", "c", "a", "s", "t", " ", "a", "n", "d", " ",
       "a", "n", "a", "l", "y", "s", "i", "s">>,
     <<"i", "m", "p", "a", "c", "t", " ", "e", "x", "p", "l", "a", "i",
       "n">>,
     <<"e", "x", "p", "l", "a", "i", "n", " ", "h", "o", "w", " ", "t",
       "o">>,
     <<"h", "o", "w", " ", "t", "o", " ", "s", "h", "i", "p">>,
     <<"b", "u", "l", "k", " ", "r", "a", "t", "e", "s">>,
     <<"u", "r", "g", "e", "n", "t", " ", "o", "u", "t", "l", "o", "o",
       "k", " ", "t", "o", "d", "a", "y">>,
     <<"l", "a", "t", "e", "s", "t", " ", "i", "m", "p", "a", "c", "t">>,
     <<"U", "r", "g", "e", "n", "t", ":", " ", "W", "h", "a", "t", " ",
       "i", "s", " ", "t", "h", "e", " ", "C", "U", "R", "R", "E", "N",
       "T", " ", "o", "u", "t", "l", "o", "o", "k">>,
     <<"h", "o", "w", " ", "t", "o", " ", "f", "o", "r", "e", "c", "a",
       "s", "t">>,
     <<"U+C804", "U+B9DD", " ", "U+BD84", "U+C11D">>,
     <<"U+CD5C", "U+ADFC", " ", "U+BC29", "U+BC95">>,
     <<"r", "e", "c", "e", "n", "t">>,
     <<"t", "o", "d", "a", "y">>,
     <<"U+BB34", "U+C5C7", " ", "U+C5B4", "U+B5BB", "U+AC8C">>,
     <<"U+AE34", "U+AE09", " ", "U+C601", "U+D5A5", " ", "U+C9C0",
       "U+AE08">>,
     <<"w", "h", "a", "t", " ", "i", "s", " ", "t", "h", "e", " ", "i",
       "m", "p", "a", "c", "t">>}

InitIntent ==
    /\ InitStore
    /\ request \in {[op |-> "analyze_query_intent", query |-> q,
                      user_meta |-> u] :
                       q \in IntentQueryPool, u \in UserPool}

analyze_query_intent_call ==
    /\ pc = "idle"
    /\ request.op = "analyze_query_intent"
    /\ LET done == analyze_query_intent(request.query, request.user_meta)
       IN  result' = IF done.raised
                     THEN [op |-> "analyze_query_intent", raised |-> TRUE,
                           error |-> done.error]
                     ELSE [op |-> "analyze_query_intent", raised |-> FALSE,
                           intent |-> done.value]
    /\ pc' = "returned"
    /\ StoreUnchanged
    /\ UNCHANGED request

NextIntent == analyze_query_intent_call

SpecIntent == InitIntent /\ [][NextIntent]_vars

\* _apply_filters called on its own, with date texts of many shapes; each
\* text comes with the date it stands for (<<>> when it stands for none)
DateCases ==
    {[text |-> "2025-08-01", denotes |-> <<2025, 8, 1>>],
     [text |-> "2025-08-02", denotes |-> <<2025, 8, 2>>],
     [text |-> "2025-08-04", denotes |-> <<2025, 8, 4>>],
     [text |-> "2025-08-05", denotes |-> <<2025, 8, 5>>],
     [text |-> "2025-8-2", denotes |-> <<2025, 8, 2>>],
     [text |-> "2025-08- 3", denotes |-> <<2025, 8, 3>>],
     [text |-> "2024-02-29", denotes |-> <<2024, 2, 29>>],
     [text |-> "2025/08/02", denotes |-> <<>>],
     [text |-> "Aug 2, 2025", denotes |-> <<>>],
     [text |-> "2025-02-30", denotes |-> <<>>],
     [text |-> "2025-13-01", denotes |-> <<>>],
     [text |-> "2025-08-02T10:00", denotes |-> <<>>],
     [text |-> "2025-08-32", denotes |-> <<>>],
     [text |-> "", denotes |-> <<>>]}

\* a metadata record with this date
MetaDated(text) == [clean_meta(DocSupramax) EXCEPT !.date = text]

\* a record without a date, as a line that add_documents did not write has it
MetaUndated ==
    [f \in DOMAIN clean_meta(DocSupramax) \ {"date"} |->
        clean_meta(DocSupramax)[f]]

DateFilterPool ==
    {[date_range |-> <<Date(2025, 8, 2), Date(2025, 8, 4)>>],
     [date_range |-> <<Date(2025, 8, 2), Date(2025, 8, 2)>>],
     [date_range |-> <<Date(2025, 8, 4), Date(2025, 8, 2)>>],
     [date_range |-> <<Date(2024, 2, 29), Date(2025, 8, 1)>>],
     [date_range |-> <<DateString("2025-08-02"), DateString("2025-08-04")>>],
     [date_range |-> <<Date(2025, 8, 2), Date(2025, 8, 4)>>,
      category |-> <<"coal">>],
     [date_range |-> <<Date(2025, 8, 2), Date(2025, 8, 4)>>,
      category |-> <<"supramax">>],
     [category |-> <<"supramax">>]}

InitFilter ==
    /\ InitStore
    /\ request \in
           {[op |-> "_apply_filters", meta |-> MetaDated(c.text),
             filters |-> f, denotes |-> c.denotes] :
               c \in DateCases, f \in DateFilterPool}
           \cup {[op |-> "_apply_filters", meta |-> MetaUndated,
                  filters |-> f, denotes |-> <<>>] : f \in DateFilterPool}

_apply_filters_call ==
    /\ pc = "idle"
    /\ request.op = "_apply_filters"
    /\ result' = [op |-> "_apply_filters",
                  kept |-> _apply_filters(request.meta, request.filters)]
    /\ pc' = "returned"
    /\ StoreUnchanged
    /\ UNCHANGED request

NextFilter == _apply_filters_call

SpecFilter == InitFilter /\ [][NextFilter]_vars

\* ------------------------------------------ add_documents calls side by side
\* Nothing serializes two add_documents calls of two processes: each has its
\* own idx, id_base and i, and both work on INDEX_PATH and META_PATH. No file
\* operation and no FAISS call fails here; embedding calls may.

\* lines 79-101 in process w: valid_docs, load_index, id_base
add_documents_by(w) ==
    /\ pc = "idle"
    /\ writers[w].pc = "idle"
    /\ \E docs \in DocLists(MaxTotal - submitted), bs \in 1..MaxBatch :
         LET valid == SelectSeq(docs, validate_document) IN
         /\ submitted' = submitted + Len(docs)
         /\ IF valid = <<>>
            THEN /\ bs = 1
                 /\ UNCHANGED <<writers, history>>
            ELSE /\ writers' = [writers EXCEPT ![w] =
                        [pc |-> "batch", valid_docs |-> valid, batch_size |-> bs,
                         idx |-> load_index(index_file, TRUE),
                         id_base |-> Len(existing_metas(meta_file)),
                         i |-> 0]]
                 /\ history' = [history EXCEPT !.overlapped =
                        @ \/ \E o \in Writers \ {w} : writers[o].pc # "idle"]
    /\ UNCHANGED <<index_file, meta_file, pc, n_docs, locals, load_ok,
                   batch_log, pre, result, rebuild_vars, request, reader>>

\* lines 104-177 in process w: one batch; the IDs of line 136 are recorded
add_documents_batch_by(w) ==
    /\ writers[w].pc = "batch"
    /\ LET me == writers[w]
           batch_docs == SubSeq(me.valid_docs, me.i + 1,
                                Min(me.i + me.batch_size, Len(me.valid_docs)))
       IN \E fails \in SUBSET Embedded(batch_docs) :
           LET items == ProcessBatch(batch_docs, fails, me.id_base + me.i, 0) IN
           /\ writers' = [writers EXCEPT ![w] =
                  [me EXCEPT !.idx = add_with_ids(me.idx, items),
                             !.i = me.i + me.batch_size,
                             !.pc = IF me.i + me.batch_size < Len(me.valid_docs)
                                    THEN "batch" ELSE "save"]]
           /\ meta_file' = IF items = <<>> THEN meta_file
                           ELSE append_metadata(meta_file, items)
           /\ history' = [history EXCEPT
                  !.skipped = @ \/ Len(items) < Len(batch_docs),
                  !.assigned = @ \o [k \in 1..Len(items) |->
                                       [id |-> items[k].id, vec |-> items[k].vec]]]
    /\ UNCHANGED <<index_file, pc, n_docs, locals, load_ok, batch_log,
                   submitted, pre, result, rebuild_vars, request, reader>>

\* lines 179-181 in process w: save_index, and the call returns
add_documents_save_by(w) ==
    /\ writers[w].pc = "save"
    /\ index_file' = save_index(writers[w].idx)
    /\ writers' = [writers EXCEPT ![w] = WriterIdle]
    /\ UNCHANGED <<meta_file, pc, n_docs, locals, load_ok, batch_log,
                   submitted, pre, result, rebuild_vars, request, reader,
                   history>>

concurrent_add_documents == \E w \in Writers : add_documents_by(w)

concurrent_add_documents_batch == \E w \in Writers : add_documents_batch_by(w)

concurrent_add_documents_save == \E w \in Writers : add_documents_save_by(w)

NextWriters ==
    \/ concurrent_add_documents
    \/ concurrent_add_documents_batch
    \/ concurrent_add_documents_save

SpecWriters == Init /\ [][NextWriters]_vars

\* ------------------------------- search_articles beside one add_documents
\* A search_articles call of another process reads the index file first
\* (line 253) and the metadata log later (line 274); the steps of one
\* add_documents call may fall before, between and after the two reads. A
\* read of the index file may fail (the file is being written); the reader
\* then has an empty index.

\* the filters of the search that runs beside add_documents: none, or one
\* that rejects some records
ReaderFilters == {[category |-> <<>>], [category |-> <<"supramax">>]}

\* lines 252-267: load_index, the query embedding, idx.search
search_articles_load ==
    /\ reader.pc = "idle"
    /\ \E query \in Queries, filters \in ReaderFilters, top_k \in 1..MaxTopK,
          read_ok \in BOOLEAN, embed_ok \in BOOLEAN :
         LET index == load_index(index_file, read_ok)
             search_k == Min(top_k * OverFetch, Len(index))
         IN  /\ read_ok \/ index_file.exists
             /\ embed_ok \/ Len(index) > 0
             /\ IF Len(index) = 0 \/ ~embed_ok
                THEN reader' = [pc |-> "returned", query |-> query,
                                filters |-> filters, top_k |-> top_k,
                                index |-> index, cands |-> <<>>,
                                lines |-> 0, hits |-> <<>>]
                ELSE \E cands \in SearchOrders(index, query, search_k) :
                       reader' = [pc |-> "read_meta", query |-> query,
                                  filters |-> filters, top_k |-> top_k,
                                  index |-> index, cands |-> cands,
                                  lines |-> 0, hits |-> <<>>]
    /\ UNCHANGED <<index_file, meta_file, pc, n_docs, locals, load_ok,
                   batch_log, submitted, pre, result, rebuild_vars, request,
                   writers, history>>

\* lines 270-309: the metadata log is read as it is now, the candidates are
\* walked, the hits sorted and cut
search_articles_collect ==
    /\ reader.pc = "read_meta"
    /\ LET hits == CollectHits(reader.cands, 1, <<>>, meta_file.content,
                               reader.filters, reader.top_k,
                               SimilarityThreshold)
       IN  reader' = [reader EXCEPT
               !.pc = "returned",
               !.lines = Len(meta_file.content),
               !.hits = IF meta_file.exists
                        THEN SubSeq(SortHits(hits), 1,
                                    Min(reader.top_k, Len(hits)))
                        ELSE <<>>]
    /\ UNCHANGED <<index_file, meta_file, pc, n_docs, locals, load_ok,
                   batch_log, submitted, pre, result, rebuild_vars, request,
                   writers, history>>

\* the caller of search_articles has the list
search_articles_done ==
    /\ reader.pc = "returned"
    /\ reader' = ReaderIdle
    /\ UNCHANGED <<index_file, meta_file, pc, n_docs, locals, load_ok,
                   batch_log, submitted, pre, result, rebuild_vars, request,
                   writers, history>>

single_add_documents == add_documents_by("w1")

single_add_documents_batch == add_documents_batch_by("w1")

single_add_documents_save == add_documents_save_by("w1")

NextInterleaved ==
    \/ single_add_documents
    \/ single_add_documents_batch
    \/ single_add_documents_save
    \/ search_articles_load
    \/ search_articles_collect
    \/ search_articles_done

SpecInterleaved == Init /\ [][NextInterleaved]_vars

\* ------------------------------------------------------------- properties
Returned(op) == pc = "returned" /\ result.op = op

\* line k of the log (zero-based k - 1) is the record of the vector with ID k - 1
Aligned(index, meta) ==
    /\ Len(index) = Len(meta)
    /\ \A k \in DOMAIN index :
           index[k].id = k - 1 /\ index[k].vec = VecOfMeta(meta[k])

PreAligned == Aligned(pre.index.content, pre.meta.content)

IsPrefix(a, b) == Len(a) <= Len(b) /\ SubSeq(b, 1, Len(a)) = a

LogHas(outcome) == \E k \in DOMAIN batch_log : batch_log[k].outcome = outcome

RECURSIVE SumSizes(_)
SumSizes(log) ==
    IF log = <<>> THEN 0 ELSE log[1].size + SumSizes(Tail(log))

RECURSIVE SumStored(_)
SumStored(log) ==
    IF log = <<>> THEN 0
    ELSE (IF log[1].outcome = "ok" THEN Len(log[1].items) ELSE 0)
         + SumStored(Tail(log))

\* a vector entry of the index and the metadata line at its ID are one document's
Retrievable(item) ==
    /\ [id |-> item.id, vec |-> item.vec] \in Range(index_file.content)
    /\ item.id < Len(meta_file.content)
    /\ meta_file.content[item.id + 1] = item.meta

\* C1: starting from an empty or aligned store, after an add_documents call
\* that returns without raising, the metadata log has as many lines as the
\* persisted index has vectors.
C1_IdAlignment ==
    (Returned("add") /\ ~result.raised /\ PreAligned)
        => Len(meta_file.content) = Len(index_file.content)

\* C2: after add_documents calls (some of which skip a document whose embedding
\* failed or whose text was blank), every vector stored under ID n is the
\* vector of the document on zero-based line n of the metadata log.
C2_PositionalCorrespondence ==
    Returned("add")
        => \A k \in DOMAIN index_file.content :
               LET e == index_file.content[k] IN
               /\ e.id < Len(meta_file.content)
               /\ VecOfMeta(meta_file.content[e.id + 1]) = e.vec

\* C3: IDs are never reused: the IDs of the vectors in the index, in the order
\* in which they were appended, are strictly increasing.
C3_IdsNeverReused ==
    Returned("add")
        => \A a, b \in DOMAIN index_file.content :
               a < b => index_file.content[a].id < index_file.content[b].id

\* C4: vector and metadata are appended as one unit: a batch whose add_with_ids
\* failed wrote no metadata line, and no vector of a batch whose metadata
\* write failed is in the index that is saved.
C4_VectorMetadataUnit ==
    (Returned("add") /\ PreAligned)
        => /\ Len(meta_file.content)
                = Len(pre.meta.content) + SumStored(batch_log)
           /\ \A k \in DOMAIN batch_log :
                  (batch_log[k].outcome = "write_failed" /\ result.saved = "ok")
                      => \A m \in DOMAIN batch_log[k].items :
                             [id |-> batch_log[k].items[m].id,
                              vec |-> batch_log[k].items[m].vec]
                                 \notin Range(index_file.content)

\* C5: crash consistency: when add_documents is interrupted between two steps,
\* every metadata line on disk has its vector, under its ID, in the index file
\* on disk.
C5_CrashConsistency ==
    (Returned("crash") /\ PreAligned)
        => \A n \in DOMAIN meta_file.content :
               [id |-> n - 1, vec |-> VecOfMeta(meta_file.content[n])]
                   \in Range(index_file.content)

\* C6: ingestion fault isolation: when k of the documents fail validation and
\* every other document is embedded, add_documents stores exactly len(docs) - k
\* documents (a vector and a metadata line each) and returns the count of
\* ingested or of dropped documents to its caller.
C6_FaultIsolation ==
    (Returned("add") /\ ~result.raised /\ 0 < SumSizes(batch_log)
        /\ SumSizes(batch_log) < n_docs
        /\ \A k \in DOMAIN batch_log :
               Len(batch_log[k].items) = batch_log[k].size)
        => LET ingested == SumSizes(batch_log)
               dropped == n_docs - ingested
           IN  /\ Len(meta_file.content) = Len(pre.meta.content) + ingested
               /\ Len(index_file.content) = Len(pre.index.content) + ingested
               /\ result.ret \in {<<ingested>>, <<dropped>>,
                                  <<ingested, dropped>>}

\* every (ID, vector) pair and every metadata line of before the call is kept
KeepsEntries ==
    \A e \in Range(pre.index.content) : e \in Range(index_file.content)

C8_LaterBatchesKept ==
    (Returned("add") /\ ~result.raised /\ load_ok /\ PreAligned)
        => \A k, m \in DOMAIN batch_log :
               (k < m /\ batch_log[k].outcome = "add_failed"
                      /\ batch_log[m].outcome = "ok")
                   => \A n \in DOMAIN batch_log[m].items :
                          Retrievable(batch_log[m].items[n])

\* C9: a failed write of the metadata log or of the index file during
\* add_documents reaches the caller as an error.
C9_WriteFailurePropagates ==
    (Returned("add")
        /\ (LogHas("write_failed") \/ result.saved \in {"failed", "torn"}))
        => result.raised

\* C10: every hit search_articles returns satisfies all filters that are
\* given: its events, its category list and its assigned_group list each
\* share an element with the filter's list; an absent or empty filter
\* constrains nothing.
C10_FilterCorrectness ==
    Returned("search")
        => \A h \in DOMAIN result.hits :
               \A key \in {"events", "category", "assigned_group"} :
                   (key \in DOMAIN result.filters /\ result.filters[key] # <<>>)
                       => Range(result.hits[h][key])
                              \cap Range(result.filters[key]) # {}

\* a filtered search returned a hit although the log holds a record the
\* filter rejects
C10_Witness ==
    /\ Returned("search")
    /\ Len(result.hits) > 0
    /\ \E key \in {"events", "category", "assigned_group"} :
           /\ key \in DOMAIN result.filters
           /\ result.filters[key] # <<>>
           /\ \E n \in DOMAIN meta_file.content :
                  Range(meta_file.content[n][key])
                      \cap Range(result.filters[key]) = {}

\* C11: the list search_articles returns is ordered by date, newest first
\* (ISO dates in string order), and hits of the same date by score, highest
\* first; so a newer hit with a lower score comes before an older hit with a
\* higher score.
C11_RankingOrder ==
    Returned("search")
        => \A a, b \in DOMAIN result.hits :
               a < b =>
                   \/ DateRank(result.hits[a].date) > DateRank(result.hits[b].date)
                   \/ /\ result.hits[a].date = result.hits[b].date
                      /\ result.hits[a].score >= result.hits[b].score

\* a search returned a newer hit with a lower score ahead of an older hit
\* with a higher score
C11_Witness ==
    /\ Returned("search")
    /\ Len(result.hits) = 2
    /\ DateRank(result.hits[1].date) > DateRank(result.hits[2].date)
    /\ result.hits[1].score < result.hits[2].score

\* C12: search_articles returns at most top_k hits, whatever the query, the
\* filters and the state of the store, and every hit carries the ID of a
\* vector of the index and the score of that vector for the query.
C12_AtMostTopK ==
    Returned("search")
        => /\ Len(result.hits) <= result.top_k
           /\ \A h \in DOMAIN result.hits :
                  \E k \in DOMAIN index_file.content :
                      /\ index_file.content[k].id = result.hits[h].doc_id
                      /\ Score(result.query, index_file.content[k].vec)
                             = result.hits[h].score

\* a search returned top_k hits although more vectors than that score above
\* the threshold for the query
C12_Witness ==
    /\ Returned("search")
    /\ Len(result.hits) = result.top_k
    /\ Cardinality({k \in DOMAIN index_file.content :
                       Score(result.query, index_file.content[k].vec)
                           >= SimilarityThreshold}) > result.top_k

\* C13: search_articles on a store without an index file returns the empty
\* list and does not raise.
C13_EmptyIndex ==
    (Returned("search") /\ ~index_file.exists)
        => result.hits = <<>> /\ ~result.raised

\* a search returned on a store that has no index file while the metadata log
\* holds records
C13_Witness ==
    /\ Returned("search")
    /\ ~index_file.exists
    /\ Len(meta_file.content) > 0

\* C14: when the embedding call of search_articles fails on a non-empty
\* index, the caller gets an error, not the result of a search that found
\* nothing.
C14_EmbeddingFailurePropagates ==
    (Returned("search") /\ result.embed_failed) => result.raised

\* C15: after any sequence of rebuild_index attempts, whatever step of any of
\* them failed, every record that was in the metadata log before the first
\* attempt is in the metadata log or in its backup file.
C15_RebuildRecoverable ==
    Returned("rebuild")
        => \A rec \in Range(orig_meta.content) :
               rec \in Range(meta_file.content) \cup Range(backup_file.content)

\* the metadata record a hit was made from
MetaOfHit(h) == [f \in DOMAIN h \ {"score", "doc_id"} |-> h[f]]

\* the sets of documents search_articles(query, top_k=top_k) can return, no
\* filter given, on a store with this index and this metadata log
SearchDocs(index, meta, query, top_k) ==
    IF Len(index) = 0 \/ ~meta.exists THEN {{}}
    ELSE {LET hits == CollectHits(cands, 1, <<>>, meta.content,
                                  [category |-> <<>>], top_k,
                                  SimilarityThreshold)
              ret == SubSeq(SortHits(hits), 1, Min(top_k, Len(hits)))
          IN  {MetaOfHit(ret[k]) : k \in DOMAIN ret} :
            cands \in SearchOrders(index, query,
                                   Min(top_k * OverFetch, Len(index)))}

\* the records of the running or last operation whose embedding was computed
Reembedded ==
    UNION {{batch_log[k].items[n].meta : n \in DOMAIN batch_log[k].items} :
              k \in DOMAIN batch_log}

\* C16: on an aligned store, after rebuild_index returned True, a search
\* returns the documents it returned before the rebuild (compared by their
\* metadata, with top_k as large as the corpus), except those whose
\* re-embedding failed.
C16_RebuildIdempotent ==
    (Returned("rebuild") /\ result.ret = <<TRUE>> /\ PreAligned)
        => \A query \in Queries :
               LET n == Len(pre.meta.content)
                   lost == Range(pre.meta.content) \ Reembedded
               IN  SearchDocs(index_file.content, meta_file, query, n)
                       = {before \ lost :
                            before \in SearchDocs(pre.index.content, pre.meta,
                                                  query, n)}

\* C17: once rebuild_index returned True, whatever the store was before, the
\* metadata log has as many lines as the index has vectors and every vector
\* has the ID of the line of its own record, also when documents were
\* skipped because their re-embedding failed.
C17_RebuildAligns ==
    (Returned("rebuild") /\ result.ret = <<TRUE>>)
        => Aligned(index_file.content, meta_file.content)

\* the table entries whose key is the category, lower-cased and stripped
ExactKeys(cat) ==
    {k \in DOMAIN CATEGORY_TO_GROUP :
        CATEGORY_TO_GROUP[k].key = strip(lower(cat))}

\* the table entries whose key contains the category or is contained in it
PartialKeys(cat) ==
    {k \in DOMAIN CATEGORY_TO_GROUP :
        \/ IsSub(CATEGORY_TO_GROUP[k].key, strip(lower(cat)))
        \/ IsSub(strip(lower(cat)), CATEGORY_TO_GROUP[k].key)}

GroupsAt(keys) == {CATEGORY_TO_GROUP[k].group : k \in keys}

\* C18: map_categories_to_groups returns {steel_export_group} for
\* ["supramax"], {coal_import_group} for ["panamax", "coal"], {general_group}
\* for the empty list and for categories of which none equals, contains or is
\* contained in a key of the table; a category that equals a key gives that
\* key's group and no group of a partial match; every category with a match
\* gives a group to the result.
C18_GroupMapping ==
    Returned("map_categories_to_groups")
        => LET cats == request.categories
               got == result.groups
               used == {k \in DOMAIN cats : cats[k] # <<>>}
               allowed == UNION {IF ExactKeys(cats[k]) # {}
                                 THEN GroupsAt(ExactKeys(cats[k]))
                                 ELSE GroupsAt(PartialKeys(cats[k])) : k \in used}
           IN  /\ cats = <<<<"s", "u", "p", "r", "a", "m", "a", "x">>>>
                      => got = {"steel_export_group"}
               /\ cats = <<<<"p", "a", "n", "a", "m", "a", "x">>,
                           <<"c", "o", "a", "l">>>>
                      => got = {"coal_import_group"}
               /\ cats = <<>> => got = {"general_group"}
               /\ (\A k \in used : PartialKeys(cats[k]) = {})
                      => got = {"general_group"}
               /\ \A k \in used :
                      /\ ExactKeys(cats[k]) # {}
                             => GroupsAt(ExactKeys(cats[k])) \subseteq got
                      /\ PartialKeys(cats[k]) # {}
                             => GroupsAt(PartialKeys(cats[k])) \cap got # {}
               /\ got \subseteq (IF allowed = {} THEN {"general_group"}
                                  ELSE allowed)

\* the call returned two groups for two categories, one of which equals a
\* key while an earlier key of another group contains it
C18_Witness ==
    /\ Returned("map_categories_to_groups")
    /\ Cardinality(result.groups) = 2
    /\ \E k \in DOMAIN request.categories :
           /\ ExactKeys(request.categories[k]) # {}
           /\ \E m \in PartialKeys(request.categories[k]) :
                  /\ \A e \in ExactKeys(request.categories[k]) : m < e
                  /\ CATEGORY_TO_GROUP[m].group \notin result.groups

\* C19: every record analyze_article returns has a non-empty assigned_group
\* list without an empty name, whether it came from a reply of the model with
\* a group, from a reply with an empty or missing group, from the keyword
\* fallback after all retries failed or from the exception fallback; when no
\* group was given and no category or keyword matches, it is ["general_group"].
C19_GroupNeverEmpty ==
    Returned("analyze_article")
        => LET groups == result.record.assigned_group
               unmatched == \A k \in DOMAIN result.record.category :
                                PartialKeys(result.record.category[k]) = {}
               given == /\ result.path = "llm"
                        /\ LET value == request.replies[result.calls].value
                           IN  \/ "assigned_group" \notin DOMAIN value
                               \/ ~Falsy(value.assigned_group)
           IN  /\ groups # {}
               /\ "" \notin groups
               /\ result.path = "exception" => groups = {"general_group"}
               /\ (~given /\ unmatched) => groups = {"general_group"}

\* the keyword fallback, after MAX_RETRIES failed calls, returned a record
\* with two groups
C19_Witness ==
    /\ Returned("analyze_article")
    /\ result.path = "fallback"
    /\ result.calls = MAX_RETRIES
    /\ Cardinality(result.record.assigned_group) = 2

\* the call got as far as the chat completion call
ReachedLLM ==
    /\ request.user_meta.type = "dict"
    /\ ("groups" \in DOMAIN request.user_meta
            => request.user_meta.groups.type = "list")

\* C20: build_answer does not raise: it returns a text when the intent
\* analysis, the retrieval, the prompt assembly or the chat completion call
\* failed, and when the chat completion call raised, the text is the fixed
\* fallback message with the first 100 characters of the error text.
C20_AlwaysAnswers ==
    Returned("build_answer")
        => /\ ~result.raised
           /\ result.answer.kind \in {"answer", "fallback"}
           /\ (ReachedLLM /\ request.reply.kind = "raise")
                  => /\ result.answer.kind = "fallback"
                     /\ Len(result.answer.error_info) <= 100
                     /\ IsPrefix(result.answer.error_info, request.reply.error)
                     /\ \/ result.answer.error_info = request.reply.error
                        \/ Len(result.answer.error_info) = 100

\* the chat completion call raised an error with a text of more than 100
\* characters and build_answer returned the fallback message
C20_Witness ==
    /\ Returned("build_answer")
    /\ ReachedLLM
    /\ request.reply.kind = "raise"
    /\ Len(request.reply.error) > 100
    /\ result.answer.kind = "fallback"

\* the IDs given out at line 136 so far, in the order in which they were given
AssignedIds == [k \in DOMAIN history.assigned |-> history.assigned[k].id]

TopicFamilies ==
    <<[type |-> "forecast", words |-> forecast_words],
      [type |-> "analysis", words |-> analysis_words],
      [type |-> "definition", words |-> definition_words],
      [type |-> "how_to", words |-> how_to_words]>>

\* the families of which the query of the request holds a keyword
FamiliesInQuery ==
    {k \in DOMAIN TopicFamilies :
        AnyIn(TopicFamilies[k].words, lower(request.query))}

\* C22: the topic type analyze_query_intent returns is that of the first
\* family, in the order forecast, analysis, definition, how_to, of which the
\* query holds a keyword, and general when it holds none; urgency is high
\* exactly when the query holds an urgency keyword and requires_recent_data
\* is set exactly when it holds a recency keyword, whatever the topic type.
C22_TopicPriority ==
    (Returned("analyze_query_intent") /\ ~result.raised)
        => /\ FamiliesInQuery = {} => result.intent.type = "general"
           /\ \A k \in FamiliesInQuery :
                  (\A m \in FamiliesInQuery : k <= m)
                      => result.intent.type = TopicFamilies[k].type
           /\ (result.intent.urgency = "high")
                  <=> AnyIn(urgent_keywords, lower(request.query))
           /\ result.intent.urgency \in {"high", "normal"}
           /\ result.intent.requires_recent_data
                  <=> AnyIn(recent_keywords, lower(request.query))

\* the query holds keywords of all of forecast, definition, urgency and
\* recency, and the call returned
C22_Witness ==
    /\ Returned("analyze_query_intent")
    /\ ~result.raised
    /\ {1, 3} \subseteq FamiliesInQuery
    /\ result.intent.type = "forecast"
    /\ result.intent.urgency = "high"
    /\ result.intent.requires_recent_data

\* the vectors of the index file whose ID has no line in the metadata log
OutOfRange ==
    {k \in DOMAIN index_file.content :
        \/ index_file.content[k].id >= Len(meta_file.content)
        \/ index_file.content[k].id < 0}

Eligible ==
    {k \in DOMAIN result.cands :
        /\ result.cands[k].score >= SimilarityThreshold
        /\ result.cands[k].id < Len(meta_file.content)
        /\ _apply_filters(meta_file.content[result.cands[k].id + 1],
                          result.filters)}

\* the first top_k of them
Chosen ==
    {k \in Eligible :
        Cardinality({m \in Eligible : m < k}) < result.top_k}

\* C24: search_articles fetches min(top_k * 5, number of vectors)
\* candidates, best score first; no hit has a score below the threshold; the
\* hits are the first top_k fetched candidates that pass the filters, so no
\* fetched candidate that passes and is left out has a higher score than a hit.
C24_Selection ==
    (Returned("search") /\ load_ok /\ ~result.embed_failed
        /\ meta_file.exists /\ Len(index_file.content) > 0)
        => /\ Len(result.cands)
                  = Min(result.top_k * 5, Len(index_file.content))
           /\ \A a, b \in DOMAIN result.cands :
                  a < b => result.cands[a].score >= result.cands[b].score
           /\ \A h \in DOMAIN result.hits :
                  result.hits[h].score >= SimilarityThreshold
           /\ Len(result.hits) = Cardinality(Chosen)
           /\ {[id |-> result.hits[h].doc_id, score |-> result.hits[h].score] :
                  h \in DOMAIN result.hits}
                  = {result.cands[k] : k \in Chosen}
           /\ \A h \in DOMAIN result.hits, k \in Eligible \ Chosen :
                  result.hits[h].score >= result.cands[k].score

\* a search fetched fewer candidates than the index has vectors, passed over
\* a fetched candidate that the filters reject, returned top_k hits and left
\* out a vector that passes the filters
C24_Witness ==
    /\ Returned("search")
    /\ load_ok
    /\ Len(result.cands) = result.top_k * 5
    /\ Len(result.cands) < Len(index_file.content)
    /\ Len(result.hits) = result.top_k
    /\ \E k \in DOMAIN result.cands :
           /\ k \notin Eligible
           /\ \E m \in Chosen : k < m
    /\ \E n \in DOMAIN index_file.content :
           /\ _apply_filters(meta_file.content[index_file.content[n].id + 1],
                             result.filters)
           /\ \A k \in DOMAIN result.cands :
                  result.cands[k].id # index_file.content[n].id

\* a date as one number, year first
DayNumber(y, m, d) == y * 10000 + m * 100 + d

\* the date of the request's record is within the request's date_range, both
\* ends included
WithinRange ==
    LET bounds == request.filters.date_range
        date == request.denotes
    IN  /\ date # <<>>
        /\ bounds[1].type = "date"
        /\ bounds[2].type = "date"
        /\ DayNumber(bounds[1].y, bounds[1].m, bounds[1].d)
               <= DayNumber(date[1], date[2], date[3])
        /\ DayNumber(date[1], date[2], date[3])
               <= DayNumber(bounds[2].y, bounds[2].m, bounds[2].d)

\* C25: with a date_range given, _apply_filters keeps a record only if its
\* date is a date in the form year-month-day that is not before the start
\* and not after the end of the range; it keeps such a record when no other
\* filter rejects it; a record without a date, with an empty date or with a
\* text that is no such date is rejected.
C25_DateRange ==
    (Returned("_apply_filters") /\ "date_range" \in DOMAIN request.filters)
        => /\ result.kept => WithinRange
           /\ (/\ WithinRange
               /\ "category" \in DOMAIN request.filters
                      => Range(request.meta.category)
                             \cap Range(request.filters.category) # {})
                  => result.kept
           /\ request.denotes = <<>> => ~result.kept

\* a record dated on the last day of the range was kept
C25_Witness ==
    /\ Returned("_apply_filters")
    /\ "date_range" \in DOMAIN request.filters
    /\ result.kept
    /\ request.filters.date_range[1] # request.filters.date_range[2]
    /\ request.denotes = <<request.filters.date_range[2].y,
                           request.filters.date_range[2].m,
                           request.filters.date_range[2].d>>

\* the reply is a JSON object with a summary of ten characters or more
ReplyParses(reply) ==
    /\ reply.kind = "json"
    /\ "summary" \in DOMAIN reply.value
    /\ Len(strip(reply.value.summary)) >= 10

\* the first of the replies, by position, that parses
FirstParsing ==
    {k \in DOMAIN request.replies :
        /\ ReplyParses(request.replies[k])
        /\ \A m \in 1..(k - 1) : ~ReplyParses(request.replies[m])}

\* the keywords of the fallback that the title or the content holds
KeywordsInArticle ==
    {kw \in Range(FallbackKeywords) :
        IsSub(kw, lower(request.article.title \o <<" ">>
                        \o request.article.content))}

\* C26: for an article that passes validation analyze_article makes at
\* least one and at most MAX_RETRIES (3) calls of the model; it stops at the
\* first reply that parses and returns the record made from that reply; when
\* none of the three replies parses it has made three calls and returns the
\* keyword fallback: the keywords found in title and content, their groups,
\* no events.
C26_RetryBound ==
    (Returned("analyze_article") /\ result.path # "exception")
        => /\ result.calls \in 1..3
           /\ \A k \in FirstParsing :
                  /\ result.calls = k
                  /\ result.path = "llm"
                  /\ result.record.summary
                         = strip(request.replies[k].value.summary)
           /\ FirstParsing = {}
                  => /\ result.calls = 3
                     /\ result.path = "fallback"
                     /\ Range(result.record.category) = KeywordsInArticle
                     /\ result.record.assigned_group
                            = map_categories_to_groups(result.record.category)
                     /\ result.record.events = <<>>

\* the first reply did not parse, the second did and the third would have:
\* two calls were made
C26_Witness ==
    /\ Returned("analyze_article")
    /\ result.path = "llm"
    /\ result.calls = 2
    /\ ~ReplyParses(request.replies[1])
    /\ ReplyParses(request.replies[3])
    /\ request.replies[3] # request.replies[2]

\* C27: load_index gives its caller an index in every case: the index of the
\* file when the file is there and is read, a new empty index when there is
\* no file or reading it fails; the caller goes on and no read error reaches
\* it: add_documents works on that index, search_articles returns the empty
\* list.
C27_LoadIndexFailsSoft ==
    /\ (pc = "batch" /\ i = 0 /\ ~in_rebuild)
           => /\ (index_file.exists /\ load_ok) => idx = index_file.content
              /\ (~index_file.exists \/ ~load_ok) => idx = _create_empty_index
    /\ (Returned("search") /\ (~index_file.exists \/ ~load_ok))
           => /\ result.hits = <<>>
              /\ ~result.raised

\* add_documents could not read an index file that holds vectors and goes
\* on to its first batch with an empty index
C27_Witness ==
    /\ pc = "batch"
    /\ i = 0
    /\ ~load_ok
    /\ index_file.exists
    /\ Len(index_file.content) > 0
    /\ idx = <<>>

Cited(line, context) ==
    \E c \in DOMAIN context :
        /\ context[c].title = line.title
        /\ context[c].date = line.date
        /\ context[c].source = line.source

\* C29: when build_answer retrieves with top_k = 7 (the query asks for recent
\* data) and the search returns 7 hits, every hit cited in the appended source
\* list is also listed in the context given to the chat call
C29_ContextCoversSources ==
    (/\ Returned("build_answer")
     /\ result.answer.kind = "answer"
     /\ AnyIn(recent_keywords, lower(request.query))
     /\ Len(request.search_results) = RecentTopK)
    => \A k \in DOMAIN result.answer.sources :
           Cited(result.answer.sources[k], result.answer.context)

\* ------------------------------------------------------------------ C30
\* the list is empty or holds only documents that fail validation
NothingValid(docs) == \A k \in DOMAIN docs : docs[k] \in InvalidPool

\* C30: add_documents called with an empty list, or with a list in which
\* every document fails validation, returns without changing the store: the
\* index file and the metadata log are as they were before the call, no
\* batch was processed and save_index was not called
C30_NothingToAdd ==
    (/\ request.op = "add_documents"
     /\ pc # "idle"
     /\ NothingValid(request.docs))
    => /\ pc = "returned"
       /\ result.op = "add"
       /\ ~result.raised
       /\ result.saved = "none"
       /\ batch_log = <<>>
       /\ index_file = pre.index
       /\ meta_file = pre.meta

\* add_documents returned on a list of documents that all fail validation,
\* on a store that holds documents
C30_Witness ==
    /\ request.op = "add_documents"
    /\ Returned("add")
    /\ request.docs # <<>>
    /\ NothingValid(request.docs)
    /\ meta_file.content # <<>>
    /\ index_file.exists

====
